---- MODULE Spec2Model ----
(***************************************************************************)
(* A model of the pyss / pyspoc statistics pipeline: the cached            *)
(* computation graph (dataset -> statistic -> reducer), the dataset's      *)
(* mutation operations, the configuration (Config) with its reducer        *)
(* filters, and the Calculator that drives a run.                          *)
(*                                                                         *)
(* The repository holds two revisions of the Statistic base class:         *)
(*   pyss/statistic.py    one cached result per statistic instance         *)
(*   pyspoc/statistic.py  a class-level cache dataset -> statistic ->      *)
(*                        result, cleared at the start of every calculate  *)
(* Both are modelled; Spec is the pyspoc graph, SpecPyss the pyss one.     *)
(*                                                                         *)
(* A Python dict is a function whose DOMAIN is the set of keys present;    *)
(* an optional value (None or x) is the sequence <<>> or <<x>>.  A result  *)
(* (an ndarray) is an object: the caches hold its identity, an index into  *)
(* heap, so that two references to one array see each other's writes.      *)
(***************************************************************************)
EXTENDS Integers, Sequences, FiniteSets, TLC

VARIABLES
    data,                       \* Dataset.__data of every dataset object
    Statistic_cached_results,   \* pyspoc Statistic.__cached_results (class level)
    cached_result,              \* per statistic: __cached_result (pyspoc), __cached_results (pyss)
    Reducer_cached_results,     \* Reducer.__cached_results (class level)
    heap,                       \* the result objects allocated so far: heap[id] is the value of object id
    stale,                      \* history: (statistic, reducer) pairs invalidated by Statistic.uncache
    last,                       \* history: the operation performed last
    config,                     \* the Config object
    scheme,                     \* Component.__scheme of every component object
    statistic_filters,          \* the statistic_filters argument add_reducer is called with
    results_dict,               \* Calculator._results_dict
    input                       \* the arguments of the function applied, where one is

graphVars == <<data, Statistic_cached_results, cached_result,
               Reducer_cached_results, heap, stale>>

confVars == <<config, scheme, statistic_filters>>

vars == <<graphVars, last, confVars, results_dict, input>>

----------------------------------------------------------------------------
(* Bounds of the model *)

\* longest filter string add_reducer is called with
MaxFilterLen == 5

\* longest filter list add_reducer is called with
MaxFilterList == 2

\* result objects the runs of a Calculator may allocate
MaxRunObjects == 14

\* result objects one behaviour may allocate (each compute allocates one)
MaxObjects == 3

\* largest variable index remove_variable is called with
MaxVarIndex == 1

----------------------------------------------------------------------------
(* The objects *)

Datasets == {"D1", "D2"}

\* statistic objects and the class each is an instance of
Statistics == {"S1", "S2"}

ReducedStatistics == {"Q1"}

\* the statistic objects a Config is given: S3 is a second instance of the
\* class of S1, Q2 a second instance of the class of Q1
ConfigStatistics == Statistics \cup {"S3"}

ConfigReducedStatistics == ReducedStatistics \cup {"Q2"}

StatisticKind ==
    [s \in ConfigStatistics \cup ConfigReducedStatistics |->
        CASE s \in {"S1", "S3"} -> "plain"    \* a Statistic subclass
          [] s = "S2" -> "ordered"            \* a PairwiseStatistic, pairwise_dim "n", is_ordered True
          [] OTHER    -> "reduced"]           \* a ReducedStatistic subclass

Reducers == {"R1", "R2"}

Components == ConfigStatistics \cup ConfigReducedStatistics \cup Reducers

\* the module every component class is defined in, and the class names
ComponentModule == [c \in Components |-> <<"m">>]

ComponentType ==
    [c \in Components |->
        CASE c \in {"S1", "S3"} -> <<"A">>
          [] c = "S2" -> <<"B">>
          [] c \in {"Q1", "Q2"} -> <<"Q">>
          [] c = "R1" -> <<"T">>
          [] OTHER    -> <<"U">>]

Schemes == {<<"s">>, <<"t">>}

None == << >>
Some(x) == <<x>>

EmptyDict == [k \in {} |-> k]

\* d[key] = value on a dict
DictSet(d, key, value) ==
    [k \in DOMAIN d \cup {key} |-> IF k = key THEN value ELSE d[k]]

\* d.get(key)
DictGet(d, key) == IF key \in DOMAIN d THEN Some(d[key]) ELSE None

----------------------------------------------------------------------------
(* Data: an n x p array, held as the sequence of its n rows *)

RECURSIVE Insert(_, _)
Insert(x, sorted) ==
    IF sorted = << >> THEN <<x>>
    ELSE IF x <= Head(sorted) THEN <<x>> \o sorted
    ELSE <<Head(sorted)>> \o Insert(x, Tail(sorted))

RECURSIVE SortAscending(_)
SortAscending(xs) ==
    IF xs = << >> THEN << >> ELSE Insert(Head(xs), SortAscending(Tail(xs)))

NCols(array) == IF array = << >> THEN 0 ELSE Len(array[1])

Column(array, j) == [i \in 1..Len(array) |-> array[i][j]]

\* ndarray.sort(axis=0): every column is sorted, in place
SortAxis0(array) ==
    [i \in 1..Len(array) |->
        [j \in 1..NCols(array) |-> SortAscending(Column(array, j))[i]]]

RECURSIVE DropEntries(_, _, _)
DropEntries(row, indices, j) ==
    IF j > Len(row) THEN << >>
    ELSE (IF (j - 1) \in indices THEN << >> ELSE <<row[j]>>)
         \o DropEntries(row, indices, j + 1)

\* np.delete(data, var_indices_list, axis=1)
NpDelete(array, indices) ==
    [i \in 1..Len(array) |-> DropEntries(array[i], indices, 1)]

RECURSIVE SumSeq(_)
SumSeq(xs) == IF xs = << >> THEN 0 ELSE Head(xs) + SumSeq(Tail(xs))

Dot(x, y) == SumSeq([k \in 1..Len(x) |-> x[k] * y[k]])

Min(a, b) == IF a <= b THEN a ELSE b

----------------------------------------------------------------------------
(* compute of the concrete components.  compute is abstract in Statistic   *)
(* and Reducer; the bodies below stand for three statistic classes and two *)
(* reducer classes.  Each returns the value computed and the state its     *)
(* argument is left in (a compute may work on its argument in place).      *)

\* a Statistic subclass: the p x p matrix of column products
PlainCompute(array) ==
    [value |-> [i \in 1..NCols(array) |->
                   [j \in 1..NCols(array) |-> Dot(Column(array, i), Column(array, j))]],
     argument |-> array]

\* the abstract pairwise_compute of a PairwiseStatistic subclass; directed
pairwise_compute(x, y) == Dot(x, y) + SumSeq(x)

\* ndarray.swapaxes(0, 1) of a 2-D array
SwapAxes01(array) == [j \in 1..NCols(array) |-> Column(array, j)]

\* PairwiseStatistic._reshape_data on 2-D data
reshape_data(pairwise_dim, array) ==
    IF pairwise_dim = "p" THEN SwapAxes01(array) ELSE array

\* a compute that fills the lower triangle from the upper one
PairwiseStatistic_compute_symmetric(pairwise_dim, is_ordered, array) ==
    LET reshaped == reshape_data(pairwise_dim, array)
        sorted == IF is_ordered THEN SortAxis0(reshaped) ELSE reshaped
        m == Len(sorted)
    IN  IF pairwise_dim = "t"
        THEN [value |-> << >>, argument |-> array, calls |-> {}, raised |-> TRUE]
        ELSE [value |-> [i \in 1..m |-> [j \in 1..m |->
                          IF i <= j THEN pairwise_compute(sorted[i], sorted[j])
                          ELSE pairwise_compute(sorted[j], sorted[i])]],
              argument |-> IF pairwise_dim = "p" THEN SwapAxes01(sorted) ELSE sorted,
              calls |-> {c \in (1..m) \X (1..m) : c[1] <= c[2]},
              raised |-> FALSE]

\* PairwiseStatistic.compute on 2-D data: the matrix S, the state the data
\* argument is left in (swapaxes returns a view, sort works in place) and
\* the index pairs pairwise_compute has been invoked for.  With
\* pairwise_dim "t", swapaxes(0, 2) raises on 2-D data.
PairwiseStatistic_compute(pairwise_dim, is_ordered, array) ==
    LET reshaped == reshape_data(pairwise_dim, array)
        sorted == IF is_ordered THEN SortAxis0(reshaped) ELSE reshaped
        m == Len(sorted)
    IN  IF pairwise_dim = "t"
        THEN [value |-> << >>, argument |-> array, calls |-> {}, raised |-> TRUE]
        ELSE [value |-> [i \in 1..m |-> [j \in 1..m |->
                          pairwise_compute(sorted[i], sorted[j])]],
              argument |-> IF pairwise_dim = "p" THEN SwapAxes01(sorted) ELSE sorted,
              calls |-> (1..m) \X (1..m),
              raised |-> FALSE]

\* a check that lets every combination pass
check_temporal_compatibility_none(is_dynamic, pairwise_dim) == FALSE

\* PairwiseStatistic.__check_temporal_compatibility: whether it raises;
\* is_dynamic is isinstance(self, DynamicStatistic)
check_temporal_compatibility(is_dynamic, pairwise_dim) ==
    is_dynamic /\ pairwise_dim = "t"

\* PairwiseStatistic.__init__: whether it raises.  Component.__init__ checks
\* name and labels, which the classes of the model declare as required.
PairwiseStatistic_init(is_dynamic, pairwise_dim, is_ordered) ==
    check_temporal_compatibility(is_dynamic, pairwise_dim)

\* PairwiseStatistic.compute with pairwise_dim "n" and is_ordered True
PairwiseCompute(array) ==
    [value |-> PairwiseStatistic_compute("n", TRUE, array).value,
     argument |-> PairwiseStatistic_compute("n", TRUE, array).argument]

\* a ReducedStatistic subclass: the column sums, as a 1 x p array
ReducedCompute(array) ==
    [value |-> <<[j \in 1..NCols(array) |-> SumSeq(Column(array, j))]>>,
     argument |-> array]

StatisticCompute(s, array) ==
    CASE StatisticKind[s] = "plain"   -> PlainCompute(array)
      [] StatisticKind[s] = "ordered" -> PairwiseCompute(array)
      [] OTHER                        -> ReducedCompute(array)

\* ndarray.flatten(): a new one-row array
Flatten(array) ==
    IF array = << >> THEN << >>
    ELSE [k \in 1..(Len(array) * NCols(array)) |->
             array[((k - 1) \div NCols(array)) + 1][((k - 1) % NCols(array)) + 1]]

ReducerKind == [r \in Reducers |-> IF r = "R1" THEN "trace" ELSE "inplace"]

\* Trace.compute: np.trace(data)
TraceCompute(array) ==
    [value |-> SumSeq([i \in 1..Min(Len(array), NCols(array)) |-> array[i][i]]),
     argument |-> array]

\* a reducer from a user module that sorts its argument in place and
\* returns its smallest first-column entry
InPlaceCompute(array) ==
    LET sorted == SortAxis0(array)
    IN  [value |-> IF NCols(sorted) = 0 THEN 0 ELSE sorted[1][1],
         argument |-> sorted]

ReducerCompute(r, array) ==
    IF ReducerKind[r] = "trace" THEN TraceCompute(array) ELSE InPlaceCompute(array)

----------------------------------------------------------------------------
(* The cached computation graph.  The operators below take and return the  *)
(* graph g = [data, sc, cr, rc, heap]: the datasets' arrays, the           *)
(* class-level statistic cache, each statistic's own cached result, the    *)
(* class-level reducer cache and the heap.                                  *)

Graph ==
    [data |-> data, sc |-> Statistic_cached_results, cr |-> cached_result,
     rc |-> Reducer_cached_results, heap |-> heap]

\* the outcome of a call: the graph after it, the object returned (None when
\* it raised), whether compute was invoked and whether the call raised
Outcome(g, ret, computed, raised) ==
    [g |-> g, ret |-> ret, computed |-> computed, raised |-> raised]

\* copy.deepcopy: the copy is an object of its own
DeepCopy(array) == [array |-> array, shared |-> FALSE]

\* Statistic.get_result
get_result(g, statistic) == DictGet(g.cr, statistic)

\* Reducer.uncache(statistic)
Reducer_uncache(g, statistic) ==
    IF statistic \in DOMAIN g.rc /\ DOMAIN g.rc[statistic] # {}
    THEN [g EXCEPT !.rc[statistic] = EmptyDict]
    ELSE g

RECURSIVE UncacheEach(_, _)
UncacheEach(g, statistics) ==
    IF statistics = {} THEN g
    ELSE LET statistic == CHOOSE x \in statistics : TRUE
         IN  UncacheEach(Reducer_uncache(g, statistic), statistics \ {statistic})

\* Statistic.uncache without the cascade to the reducer cache
Statistic_uncache_no_cascade(g, dataset) ==
    IF dataset \in DOMAIN g.sc /\ DOMAIN g.sc[dataset] # {}
    THEN [g EXCEPT !.sc[dataset] = EmptyDict]
    ELSE g

\* pyspoc Statistic.uncache(dataset)
Statistic_uncache(g, dataset) ==
    IF dataset \in DOMAIN g.sc /\ DOMAIN g.sc[dataset] # {}
    THEN [UncacheEach(g, DOMAIN g.sc[dataset]) EXCEPT !.sc[dataset] = EmptyDict]
    ELSE g

\* compute handed the owner's array itself
StatisticArgument_shared(array) == [array |-> array, shared |-> TRUE]

\* the argument Statistic.calculate hands to compute
StatisticArgument(array) == DeepCopy(array)

\* a Statistic.calculate that does not uncache the dataset first
Statistic_calculate_no_uncache(g, self, dataset, raises) ==
    LET g1 == g
        dataset_results == DictGet(g1.sc, dataset)
        result == IF dataset_results # None THEN DictGet(dataset_results[1], self) ELSE None
    IN  IF result # None THEN Outcome(g1, result, FALSE, FALSE)
        ELSE IF raises THEN Outcome(g1, None, TRUE, TRUE)
        ELSE
            LET data_copy == StatisticArgument(g1.data[dataset])
                out == StatisticCompute(self, data_copy.array)
                id == Len(g1.heap) + 1
                g2 == [g1 EXCEPT
                         !.heap = Append(@, out.value),
                         !.data[dataset] = IF data_copy.shared THEN out.argument ELSE @,
                         !.sc = IF dataset_results = None
                                THEN DictSet(@, dataset, DictSet(EmptyDict, self, id))
                                ELSE DictSet(@, dataset, DictSet(@[dataset], self, id)),
                         !.cr = DictSet(@, self, id)]
            IN  Outcome(g2, Some(id), TRUE, FALSE)

\* pyspoc Statistic.calculate(dataset); raises: compute raises in this call
Statistic_calculate(g, self, dataset, raises) ==
    LET g1 == Statistic_uncache(g, dataset)
        dataset_results == DictGet(g1.sc, dataset)
        result == IF dataset_results # None THEN DictGet(dataset_results[1], self) ELSE None
    IN  IF result # None THEN Outcome(g1, result, FALSE, FALSE)
        ELSE IF raises THEN Outcome(g1, None, TRUE, TRUE)
        ELSE
            LET data_copy == StatisticArgument(g1.data[dataset])
                out == StatisticCompute(self, data_copy.array)
                id == Len(g1.heap) + 1
                g2 == [g1 EXCEPT
                         !.heap = Append(@, out.value),
                         !.data[dataset] = IF data_copy.shared THEN out.argument ELSE @,
                         !.sc = IF dataset_results = None
                                THEN DictSet(@, dataset, DictSet(EmptyDict, self, id))
                                ELSE DictSet(@, dataset, DictSet(@[dataset], self, id)),
                         !.cr = DictSet(@, self, id)]
            IN  Outcome(g2, Some(id), TRUE, FALSE)

\* a calculate that stores an empty result before compute raises
PyssStatistic_calculate_caching_failure(g, self, dataset, raises) ==
    LET result == get_result(g, self)
    IN  IF result # None THEN Outcome(g, result, FALSE, FALSE)
        ELSE IF raises
        THEN Outcome([g EXCEPT !.heap = Append(@, << >>),
                               !.cr = DictSet(@, self, Len(g.heap) + 1)],
                     None, TRUE, TRUE)
        ELSE
            LET data_copy == StatisticArgument(g.data[dataset])
                out == StatisticCompute(self, data_copy.array)
                id == Len(g.heap) + 1
                g1 == [g EXCEPT
                         !.heap = Append(@, out.value),
                         !.data[dataset] = IF data_copy.shared THEN out.argument ELSE @,
                         !.cr = DictSet(@, self, id)]
            IN  Outcome(g1, Some(id), TRUE, FALSE)

\* pyss Statistic.calculate(data): the cached result belongs to the statistic
\* object, whatever the data it is called with
PyssStatistic_calculate(g, self, dataset, raises) ==
    LET result == get_result(g, self)
    IN  IF result # None THEN Outcome(g, result, FALSE, FALSE)
        ELSE IF raises THEN Outcome(g, None, TRUE, TRUE)
        ELSE
            LET data_copy == StatisticArgument(g.data[dataset])
                out == StatisticCompute(self, data_copy.array)
                id == Len(g.heap) + 1
                g1 == [g EXCEPT
                         !.heap = Append(@, out.value),
                         !.data[dataset] = IF data_copy.shared THEN out.argument ELSE @,
                         !.cr = DictSet(@, self, id)]
            IN  Outcome(g1, Some(id), TRUE, FALSE)

\* pyss ReducedStatistic.calculate(data): the flattened result is a new array
Flattened(o) ==
    IF o.raised THEN o
    ELSE [o EXCEPT !.g.heap = Append(@, Flatten(o.g.heap[o.ret[1]])),
                   !.ret = Some(Len(o.g.heap) + 1)]

PyssReducedStatistic_calculate(g, self, dataset, raises) ==
    Flattened(PyssStatistic_calculate(g, self, dataset, raises))

\* pyss Statistic.uncache()
PyssStatistic_uncache(g, self) ==
    [g EXCEPT !.cr = [k \in DOMAIN @ \ {self} |-> @[k]]]

\* the argument Reducer.calculate hands to compute
ReducerArgument(array) == DeepCopy(array)

\* Reducer.calculate(statistic); a statistic without a result hands compute
\* None, on which the reducers raise
Reducer_calculate(g, self, statistic, raises) ==
    LET statistic_results == DictGet(g.rc, statistic)
        result == IF statistic_results # None THEN DictGet(statistic_results[1], self) ELSE None
        statistic_result == get_result(g, statistic)
    IN  IF result # None THEN Outcome(g, result, FALSE, FALSE)
        ELSE IF raises \/ statistic_result = None THEN Outcome(g, None, TRUE, TRUE)
        ELSE
            LET statistic_result_cp == ReducerArgument(g.heap[statistic_result[1]])
                out == ReducerCompute(self, statistic_result_cp.array)
                id == Len(g.heap) + 1
                g1 == [g EXCEPT
                         !.heap = Append(IF statistic_result_cp.shared
                                         THEN [@ EXCEPT ![statistic_result[1]] = out.argument]
                                         ELSE @,
                                         out.value),
                         !.rc = IF statistic_results = None
                                THEN DictSet(@, statistic, DictSet(EmptyDict, self, id))
                                ELSE DictSet(@, statistic, DictSet(@[statistic], self, id))]
            IN  Outcome(g1, Some(id), TRUE, FALSE)

----------------------------------------------------------------------------
(* pyss DynamicStatistic.  A 3-D array n x p x t is held as array[i][j][k]. *)

\* data.shape[2]
NSlices(array) == IF array = << >> \/ array[1] = << >> THEN 0 ELSE Len(array[1][1])

\* data[:, :, s], s counted from 1
TimeSlice(array, s) ==
    [i \in 1..Len(array) |-> [j \in 1..Len(array[i]) |-> array[i][j][s]]]

\* np.stack(results, axis=2)
Stack(results) ==
    IF results = << >> THEN << >>
    ELSE [i \in 1..Len(results[1]) |->
             [j \in 1..Len(results[1][i]) |->
                 [k \in 1..Len(results) |-> results[k][i][j]]]]

\* the loop of DynamicStatistic.calculate from slice s on: super().calculate(z)
\* on every slice z; o is the outcome so far, o.ret the list of the results
RECURSIVE DynamicLoop(_, _, _, _, _)
DynamicLoop(o, self, array, s, raises) ==
    IF o.raised \/ s > NSlices(array) THEN o
    ELSE LET z == [o.g EXCEPT !.data["D1"] = TimeSlice(array, s)]
             r == PyssStatistic_calculate(z, self, "D1", raises)
         IN  DynamicLoop([g |-> [r.g EXCEPT !.data = o.g.data],
                          ret |-> IF r.raised THEN o.ret ELSE Append(o.ret, r.ret[1]),
                          computed |-> o.computed + (IF r.computed THEN 1 ELSE 0),
                          raised |-> r.raised],
                         self, array, s + 1, raises)

\* pyss DynamicStatistic.calculate(data), data of ndim dimensions; computed
\* counts the invocations of compute
DynamicStatistic_calculate(g, self, ndim, array, raises) ==
    IF ndim = 2
    THEN LET r == PyssStatistic_calculate([g EXCEPT !.data["D1"] = array], self, "D1", raises)
         IN  [g |-> [r.g EXCEPT !.data = g.data], ret |-> r.ret,
              computed |-> IF r.computed THEN 1 ELSE 0, raised |-> r.raised]
    ELSE LET o == DynamicLoop([g |-> g, ret |-> << >>, computed |-> 0, raised |-> FALSE],
                              self, array, 1, raises)
         IN  IF o.raised THEN [o EXCEPT !.ret = None]
             ELSE [o EXCEPT !.g.heap = Append(@, Stack([k \in 1..Len(o.ret) |->
                                                          o.g.heap[o.ret[k]]])),
                            !.ret = Some(Len(o.g.heap) + 1)]

----------------------------------------------------------------------------
(* pyspoc Dataset *)

\* Dataset.remove_variable(var_indices): the outcome is the array after the
\* call and whether the call raised.  var_indices_list[0] of an empty list
\* raises IndexError; np.delete raises IndexError, caught, for an index
\* outside the array, and the call returns with nothing changed.
remove_variable(g, dataset, var_indices) ==
    IF var_indices = {} THEN [g |-> g, raised |-> TRUE]
    ELSE IF \E i \in var_indices : i >= NCols(g.data[dataset])
    THEN [g |-> g, raised |-> FALSE]
    ELSE [g |-> [g EXCEPT !.data[dataset] = NpDelete(@, var_indices)], raised |-> FALSE]

\* Dataset.add_variable(var_data): var_data is squeezed, must be 1-D, and is
\* then indexed var_data[0, 0], which raises IndexError on a 1-D array;
\* every path raises before the dataset is touched
add_variable(g, dataset) == [g |-> g, raised |-> TRUE]

\* Dataset.uncache()
Dataset_uncache(g, dataset) == Statistic_uncache(g, dataset)

----------------------------------------------------------------------------
(* Strings are sequences of characters.  Ordered dicts (a Python dict keeps  *)
(* insertion order) are sequences of <<key, value>> pairs.                   *)

OdKeys(od) == [i \in 1..Len(od) |-> od[i][1]]

OdKeySet(od) == {od[i][1] : i \in 1..Len(od)}

OdHas(od, key) == key \in OdKeySet(od)

OdGet(od, key) == od[CHOOSE i \in 1..Len(od) : od[i][1] = key][2]

\* od[key] = value
OdSet(od, key, value) ==
    IF OdHas(od, key)
    THEN [i \in 1..Len(od) |-> IF od[i][1] = key THEN <<key, value>> ELSE od[i]]
    ELSE Append(od, <<key, value>>)

RECURSIVE Concat(_)
Concat(seqs) == IF seqs = << >> THEN << >> ELSE Head(seqs) \o Concat(Tail(seqs))

\* sep.join(parts)
RECURSIVE Join(_, _)
Join(sep, parts) ==
    IF parts = << >> THEN << >>
    ELSE IF Len(parts) = 1 THEN parts[1]
    ELSE parts[1] \o sep \o Join(sep, Tail(parts))

IsPrefix(p, w) == Len(p) <= Len(w) /\ SubSeq(w, 1, Len(p)) = p

----------------------------------------------------------------------------
(* The regular expressions Config builds from a filter *)

\* the characters re.escape puts a backslash before
SpecialChars ==
    {".", "*", " ", "\\", "^", "$", "+", "?", "(", ")", "[", "]", "{", "}",
     "|", "-", "&", "~", "#"}

\* an escape that leaves the dot as it is
re_escape_not_dot(pattern) ==
    Concat([i \in 1..Len(pattern) |->
               IF pattern[i] \in SpecialChars \ {"."}
               THEN <<"\\", pattern[i]>> ELSE <<pattern[i]>>])

\* re.escape(pattern)
re_escape(pattern) ==
    Concat([i \in 1..Len(pattern) |->
               IF pattern[i] \in SpecialChars THEN <<"\\", pattern[i]>> ELSE <<pattern[i]>>])

\* str.replace(old, new), left to right
RECURSIVE str_replace(_, _, _)
str_replace(str, old, new) ==
    IF str = << >> THEN << >>
    ELSE IF IsPrefix(old, str)
    THEN new \o str_replace(SubSeq(str, Len(old) + 1, Len(str)), old, new)
    ELSE <<Head(str)>> \o str_replace(Tail(str), old, new)

\* the atoms of a regular expression made of ^, escaped characters, plain
\* characters, the dot and the star
RECURSIVE Atoms(_)
Atoms(regex) ==
    IF regex = << >> THEN << >>
    ELSE LET escaped == Head(regex) = "\\" /\ Len(regex) >= 2
             size == IF escaped THEN 2 ELSE 1
             kind == IF escaped THEN "char"
                     ELSE IF Head(regex) = "." THEN "any"
                     ELSE IF Head(regex) = "^" THEN "start"
                     ELSE "char"
             char == IF escaped THEN regex[2] ELSE Head(regex)
             starred == Len(regex) > size /\ regex[size + 1] = "*"
             rest == SubSeq(regex, size + (IF starred THEN 2 ELSE 1), Len(regex))
         IN  <<[kind |-> kind, char |-> char, starred |-> starred]>> \o Atoms(rest)

AtomMatches(atom, c) == atom.kind = "any" \/ (atom.kind = "char" /\ atom.char = c)

\* whether the atoms match str from position pos on
RECURSIVE MatchAt(_, _, _)
MatchAt(atoms, str, pos) ==
    IF atoms = << >> THEN TRUE
    ELSE LET atom == Head(atoms)
         IN  IF atom.kind = "start" THEN pos = 1 /\ MatchAt(Tail(atoms), str, pos)
             ELSE IF atom.starred
             THEN \E k \in 0..(Len(str) - pos + 1) :
                     /\ \A i \in pos..(pos + k - 1) : AtomMatches(atom, str[i])
                     /\ MatchAt(Tail(atoms), str, pos + k)
             ELSE /\ pos <= Len(str)
                  /\ AtomMatches(atom, str[pos])
                  /\ MatchAt(Tail(atoms), str, pos + 1)

\* re.match(regex, str): a match at the beginning of str
re_match(regex, str) == MatchAt(Atoms(regex), str, 1)

\* re.split(r"\s+", str)
RECURSIVE SplitWhitespace(_, _, _)
SplitWhitespace(str, piece, in_space) ==
    IF str = << >> THEN <<piece>>
    ELSE IF Head(str) = " "
    THEN IF in_space THEN SplitWhitespace(Tail(str), piece, TRUE)
         ELSE <<piece>> \o SplitWhitespace(Tail(str), << >>, TRUE)
    ELSE SplitWhitespace(Tail(str), Append(piece, Head(str)), FALSE)

re_split(str) == SplitWhitespace(str, << >>, FALSE)

----------------------------------------------------------------------------
(* Config.  The operators take and return cs = [config, scheme]: the Config  *)
(* object and the scheme attribute of the component objects.  A call's       *)
(* outcome is cs after it and whether it raised.                             *)

Archetypes == {"Statistic", "Reducer", "ReducedStatistic"}

\* Config.__init__
EmptyConfig ==
    [config_scheme |-> [a \in Archetypes |-> << >>],
     cached_module_classes |-> [a \in Archetypes |-> EmptyDict],
     cached_modules |-> EmptyDict,
     reducer_filtered_stats |-> EmptyDict,
     reducer_filters |-> EmptyDict]

Conf == [config |-> config, scheme |-> scheme]

get_full_component_name(module_name, component_type_name) ==
    module_name \o <<".">> \o component_type_name

get_full_instantiated_name(module_name, component_type_name, scheme_name) ==
    Join(<<".">>, <<module_name, component_type_name, scheme_name>>)

\* a check that finds no name registered
NameExists_never(partition, full_instance_name) == FALSE

\* the check of __add_component for a name that is registered already
NameExists(partition, full_instance_name) == OdHas(partition, full_instance_name)

\* an __add_component that registers the component before it checks the name
add_component_overwriting(cs, component, component_archetype_name, scheme_name) ==
    LET full_instance_name ==
            get_full_instantiated_name(ComponentModule[component], ComponentType[component],
                                       scheme_name)
        cs1 == [cs EXCEPT
                  !.scheme[component] = Some(scheme_name),
                  !.config.config_scheme[component_archetype_name] =
                      OdSet(@, full_instance_name, component)]
    IN  [cs |-> cs1,
         raised |-> OdHas(cs.config.config_scheme[component_archetype_name], full_instance_name)]

\* Config.__add_component
add_component(cs, component, component_archetype_name, scheme_name) ==
    LET module_reference == ComponentModule[component]
        component_type_name == ComponentType[component]
        full_component_name == get_full_component_name(module_reference, component_type_name)
        full_instance_name ==
            get_full_instantiated_name(module_reference, component_type_name, scheme_name)
        cs1 == [cs EXCEPT
                  !.config.cached_modules =
                      IF module_reference \in DOMAIN @ THEN @ ELSE DictSet(@, module_reference, 1),
                  !.scheme[component] = Some(scheme_name),
                  !.config.cached_module_classes[component_archetype_name] =
                      DictSet(@, full_component_name, component_type_name)]
    IN  IF NameExists(cs1.config.config_scheme[component_archetype_name], full_instance_name)
        THEN [cs |-> cs1, raised |-> TRUE]
        ELSE [cs |-> [cs1 EXCEPT !.config.config_scheme[component_archetype_name] =
                                    OdSet(@, full_instance_name, component)],
              raised |-> FALSE]

\* Config.add_statistic
add_statistic(cs, statistic, scheme_name) ==
    add_component(cs, statistic,
                  IF StatisticKind[statistic] = "reduced" THEN "ReducedStatistic" ELSE "Statistic",
                  scheme_name)

\* Config.add_reduced_statistic
add_reduced_statistic(cs, reduced_statistic, scheme_name) ==
    add_component(cs, reduced_statistic, "ReducedStatistic", scheme_name)

\* a filter argument is None, a str or a list of str; strs holds the one
\* str or the elements of the list
StrFilter(str) == Some([kind |-> "str", strs |-> <<str>>])

ListFilter(list) == Some([kind |-> "list", strs |-> list])

\* bool(statistic_filters)
Truthy(filters) ==
    /\ filters # None
    /\ IF filters[1].kind = "str" THEN filters[1].strs[1] # << >> ELSE filters[1].strs # << >>

\* Config.__yaml_str_list_to_list
yaml_str_list_to_list(str_list) ==
    IF str_list[1].kind = "str" THEN re_split(str_list[1].strs[1]) ELSE str_list[1].strs

\* the regular expression built from one filter
FilterRegex(stat_name) ==
    <<"^">> \o str_replace(re_escape(stat_name), <<"\\", "*">>, <<".", "*">>)

\* Config.__add_reducer_statistic_filters
add_reducer_statistic_filters(cs, reducer, filters) ==
    IF ~Truthy(filters) THEN cs
    ELSE LET statistic_list == yaml_str_list_to_list(filters)
             available_stat_names == OdKeySet(cs.config.config_scheme["Statistic"])
             filtered_stats ==
                 {stat \in available_stat_names :
                     \E i \in 1..Len(statistic_list) :
                        re_match(FilterRegex(statistic_list[i]), stat)}
         IN  [cs EXCEPT
                !.config.reducer_filtered_stats = DictSet(@, reducer, filtered_stats),
                !.config.reducer_filters = DictSet(@, reducer, filters[1])]

\* Config.add_reducer
add_reducer(cs, reducer, scheme_name, filters) ==
    LET o == add_component(cs, reducer, "Reducer", scheme_name)
    IN  IF o.raised THEN o
        ELSE IF Truthy(filters)
        THEN [cs |-> add_reducer_statistic_filters(o.cs, reducer, filters), raised |-> FALSE]
        ELSE o

\* od.pop(key, None): the dict without the key
OdPop(od, key) == SelectSeq(od, LAMBDA entry : entry[1] # key)

\* d.pop(key, None): the dict without the key
DictPop(d, key) == [k \in DOMAIN d \ {key} |-> d[k]]

\* the outcome of a remove: the component popped, or None
Removed(cs, component, raised) == [cs |-> cs, component |-> component, raised |-> raised]

\* Config.__remove_component_by_name
remove_component_by_name(cs, component_archetype_name, module_reference, component_type_name, scheme_name) ==
    LET full_instance_name ==
            get_full_instantiated_name(module_reference, component_type_name, scheme_name)
        partition == cs.config.config_scheme[component_archetype_name]
    IN  IF ~OdHas(partition, full_instance_name) THEN Removed(cs, None, FALSE)
        ELSE Removed([cs EXCEPT !.config.config_scheme[component_archetype_name] =
                                   OdPop(@, full_instance_name)],
                     Some(OdGet(partition, full_instance_name)), FALSE)

\* Config.__remove_component: the name is built from component.scheme, and
\* str.join raises for the None of a component never given a scheme
remove_component(cs, component, component_archetype_name) ==
    IF cs.scheme[component] = None THEN Removed(cs, None, TRUE)
    ELSE remove_component_by_name(cs, component_archetype_name, ComponentModule[component],
                                  ComponentType[component], cs.scheme[component][1])

\* Config.remove_statistic
remove_statistic(cs, statistic) == remove_component(cs, statistic, "Statistic")

\* Config.remove_reducer: the resolved set of the reducer popped is dropped
remove_reducer(cs, reducer) ==
    LET o == remove_component(cs, reducer, "Reducer")
    IN  IF o.raised \/ o.component = None THEN o
        ELSE [o EXCEPT !.cs.config.reducer_filtered_stats = DictPop(@, o.component[1])]

\* Config.get_reducer_filtered_statistics
get_reducer_filtered_statistics(c, reducer) == DictGet(c.reducer_filtered_stats, reducer)

\* Config.get_reducer_filters
get_reducer_filters(c, reducer) == DictGet(c.reducer_filters, reducer)

----------------------------------------------------------------------------
(* Calculator.  compute works on the run state st: the graph, the results   *)
(* dict being built, whether an exception has left compute, and what was    *)
(* attempted and what raised.  raising names the statistics and the         *)
(* (statistic, reducer) pairs whose compute raises in this run.             *)

SelfKey == <<"s", "e", "l", "f">>

\* the value of Calculator._dataset when no dataset was loaded
NoDataset == "None"

\* Calculator.__set_dataset(dataset) on a Calculator whose _dataset is
\* current: None leaves it as it is
set_dataset(current, dataset) == IF dataset = NoDataset THEN current ELSE dataset

\* Calculator.__init__(dataset): _dataset is assigned None and then set
Calculator_init(dataset) == [dataset |-> set_dataset(NoDataset, dataset)]

\* hasattr(self, "_dataset")
has_dataset(self) == "dataset" \in DOMAIN self

\* stat.calculate(dataset), by the class of stat; the compute of a
\* statistic fits an estimator to its data and raises when given None
Dispatch_calculate(g, statistic, dataset, raises) ==
    IF StatisticKind[statistic] = "reduced"
    THEN PyssReducedStatistic_calculate(g, statistic, dataset, raises \/ dataset = NoDataset)
    ELSE PyssStatistic_calculate(g, statistic, dataset, raises \/ dataset = NoDataset)

\* the run state after stat.calculate returned or raised outcome o
Attempted(st, stat_name, o) ==
    [st EXCEPT !.g = o.g, !.stats_attempted = @ \cup {stat_name}]

\* a dict keeps its keys in the order of their first insertion
KeyInserted(keys, key) ==
    IF \E i \in 1..Len(keys) : keys[i] = key THEN keys ELSE Append(keys, key)

\* results_dict[name] = dict() or a dict of the keys given: results holds
\* the values, keys and inner_keys the order of the keys of results_dict
\* and of its values
EntrySet(st, name, value, value_keys) ==
    [st EXCEPT !.results = DictSet(@, name, value),
               !.keys = KeyInserted(@, name),
               !.inner_keys = DictSet(@, name, value_keys)]

\* results_dict[name][key] = value
InnerSet(st, name, key, value) ==
    [st EXCEPT !.results[name] = DictSet(@, key, value),
               !.inner_keys[name] = KeyInserted(@, key)]

\* the body of the statistics loop with the exception leaving compute
StatisticStep_uncaught(st, stat_name, o) ==
    IF o.raised
    THEN [Attempted(st, stat_name, o) EXCEPT !.stats_raised = @ \cup {stat_name},
                                             !.raised = TRUE]
    ELSE EntrySet(Attempted(st, stat_name, o), stat_name, EmptyDict, << >>)

\* the body of the statistics loop, stat.calculate having returned or raised
\* outcome o: results_dict[stat_name] = dict(), or except Exception
StatisticStep(st, stat_name, o) ==
    IF o.raised
    THEN [Attempted(st, stat_name, o) EXCEPT !.stats_raised = @ \cup {stat_name}]
    ELSE EntrySet(Attempted(st, stat_name, o), stat_name, EmptyDict, << >>)

RECURSIVE StatisticLoop(_, _, _, _, _)
StatisticLoop(st, c, dataset, stat_names, raising) ==
    IF stat_names = << >> \/ st.raised THEN st
    ELSE StatisticLoop(
             StatisticStep(st, Head(stat_names),
                 Dispatch_calculate(st.g, OdGet(c.config_scheme["Statistic"], Head(stat_names)),
                                    dataset,
                                    OdGet(c.config_scheme["Statistic"], Head(stat_names))
                                        \in raising.statistics)),
             c, dataset, Tail(stat_names), raising)

\* what iterating over a reducer's filters yields: the characters of a str,
\* the elements of a list
IterFilters(filters) ==
    IF filters.kind = "str"
    THEN [i \in 1..Len(filters.strs[1]) |-> <<filters.strs[1][i]>>]
    ELSE filters.strs

\* the statistics compute applies a reducer to
reducer_stat_names(c, reducer, stat_names) ==
    LET applicable_stat_names == get_reducer_filters(c, reducer)
    IN  IF applicable_stat_names = None THEN stat_names
        ELSE SelectSeq(IterFilters(applicable_stat_names[1]),
                       LAMBDA stat_name : \E i \in 1..Len(stat_names) : stat_names[i] = stat_name)

\* the body of the loop over a reducer's statistics for a statistic that
\* is no ReducedStatistic, reducer.calculate having returned or raised o
ReducedPair(st, stat_name, reducer_name, o) ==
    IF o.raised
    THEN [st EXCEPT !.g = o.g,
                    !.pairs_attempted = @ \cup {<<stat_name, reducer_name>>},
                    !.pairs_raised = @ \cup {<<stat_name, reducer_name>>}]
    ELSE InnerSet([st EXCEPT !.g = o.g,
                             !.pairs_attempted = @ \cup {<<stat_name, reducer_name>>}],
                  stat_name, reducer_name, o.ret)

\* the body of the loop over a reducer's statistics
PairStep(st, stat_name, reducer_name, stat, reducer, raising) ==
    IF StatisticKind[stat] = "reduced"
    THEN InnerSet(st, stat_name, SelfKey, get_result(st.g, stat))
    ELSE ReducedPair(st, stat_name, reducer_name,
                     Reducer_calculate(st.g, reducer, stat, <<stat, reducer>> \in raising.pairs))

RECURSIVE PairLoop(_, _, _, _, _)
PairLoop(st, c, stat_names, reducer_name, raising) ==
    IF stat_names = << >> \/ st.raised THEN st
    ELSE PairLoop(PairStep(st, Head(stat_names), reducer_name,
                           OdGet(c.config_scheme["Statistic"], Head(stat_names)),
                           OdGet(c.config_scheme["Reducer"], reducer_name), raising),
                  c, Tail(stat_names), reducer_name, raising)

RECURSIVE ReducerLoop(_, _, _, _, _)
ReducerLoop(st, c, reducer_names, stat_names, raising) ==
    IF reducer_names = << >> \/ st.raised THEN st
    ELSE ReducerLoop(
             PairLoop(st, c,
                      reducer_stat_names(c, OdGet(c.config_scheme["Reducer"], Head(reducer_names)),
                                         stat_names),
                      Head(reducer_names), raising),
             c, Tail(reducer_names), stat_names, raising)

\* the body of the reduced statistics loop, rstat.calculate having returned
\* or raised outcome o
RstatStep(st, rstat_name, o) ==
    IF o.raised
    THEN [st EXCEPT !.g = o.g,
                    !.rstats_attempted = @ \cup {rstat_name},
                    !.rstats_raised = @ \cup {rstat_name}]
    ELSE EntrySet([st EXCEPT !.g = o.g, !.rstats_attempted = @ \cup {rstat_name}],
                  rstat_name, DictSet(EmptyDict, SelfKey, o.ret), <<SelfKey>>)

RECURSIVE RstatLoop(_, _, _, _, _)
RstatLoop(st, c, dataset, rstat_names, raising) ==
    IF rstat_names = << >> \/ st.raised THEN st
    ELSE RstatLoop(
             RstatStep(st, Head(rstat_names),
                 Dispatch_calculate(st.g,
                                    OdGet(c.config_scheme["ReducedStatistic"], Head(rstat_names)),
                                    dataset,
                                    OdGet(c.config_scheme["ReducedStatistic"], Head(rstat_names))
                                        \in raising.statistics)),
             c, dataset, Tail(rstat_names), raising)

\* the run state compute starts from
NewRun(g) ==
    [g |-> g, results |-> EmptyDict, keys |-> << >>, inner_keys |-> EmptyDict,
     raised |-> FALSE,
     stats_attempted |-> {}, stats_raised |-> {},
     pairs_attempted |-> {}, pairs_raised |-> {},
     rstats_attempted |-> {}, rstats_raised |-> {}]

\* compute from the reduced statistics loop on
ComputeRstats(st, c, dataset, raising) ==
    IF c.config_scheme["ReducedStatistic"] # << >>
    THEN RstatLoop(st, c, dataset, OdKeys(c.config_scheme["ReducedStatistic"]), raising)
    ELSE st

\* compute from the reducers loop on; stat_names = list(results_dict.keys())
ComputeReducers(st, c, dataset, raising) ==
    ComputeRstats(
        ReducerLoop(st, c, OdKeys(c.config_scheme["Reducer"]),
                    SelectSeq(OdKeys(c.config_scheme["Statistic"]),
                              LAMBDA name : name \in DOMAIN st.results),
                    raising),
        c, dataset, raising)

\* Calculator.compute(config): raises when self has no attribute _dataset,
\* and runs the three loops on self.dataset otherwise
compute(g, self, c, raising) ==
    IF ~has_dataset(self) THEN [NewRun(g) EXCEPT !.raised = TRUE]
    ELSE IF c.config_scheme["Statistic"] # << >>
    THEN ComputeReducers(
             StatisticLoop(NewRun(g), c, self.dataset,
                           OdKeys(c.config_scheme["Statistic"]), raising),
             c, self.dataset, raising)
    ELSE ComputeRstats(NewRun(g), c, self.dataset, raising)

\* Calculator._build_results_table: the (statistic, reducer) column labels
\* in the order of the table, keys and inner_keys being the order of the
\* keys of results and of its values
results_table_columns(keys, inner_keys) ==
    Concat([i \in 1..Len(keys) |->
               [j \in 1..Len(inner_keys[keys[i]]) |-> <<keys[i], inner_keys[keys[i]][j]>>]])

\* Calculator._build_results_table: the (statistic, reducer) column labels
build_results_table(results) ==
    UNION {{<<stat_name, reducer_name>> : reducer_name \in DOMAIN results[stat_name]} :
              stat_name \in DOMAIN results}

----------------------------------------------------------------------------
(* Instantiating a component class from a scheme.  A class is given by the *)
(* argument specification of its __init__ (inspect.getfullargspec): args,  *)
(* defaults (None or a tuple), kwonlyargs and kwonlydefaults (None or a    *)
(* dict).  Python values are "None" and "1".                                *)

SeqRange(seq) == {seq[i] : i \in 1..Len(seq)}

IndexOf(seq, x) == CHOOSE i \in 1..Len(seq) : seq[i] = x

\* pyspoc.base.get_obj_init_args
get_obj_init_args(arg_spec) ==
    LET n_defaults == IF arg_spec.defaults # None THEN Len(arg_spec.defaults[1]) ELSE 0
        n == Len(arg_spec.args)
        optional_args == IF n_defaults > 0 THEN SubSeq(arg_spec.args, n - n_defaults + 1, n)
                         ELSE << >>
        required_args == IF n_defaults > 0 THEN SubSeq(arg_spec.args, 1, n - n_defaults)
                         ELSE arg_spec.args
        has_defaults == arg_spec.kwonlydefaults # None
        Standard(arg) == IF arg \in SeqRange(required_args) THEN "None"
                         ELSE arg_spec.defaults[1][IndexOf(optional_args, arg)]
        Keyword(arg) == IF has_defaults /\ arg \in DOMAIN arg_spec.kwonlydefaults[1]
                        THEN arg_spec.kwonlydefaults[1][arg]
                        ELSE "None"
    IN  [arg \in (SeqRange(arg_spec.args) \cup SeqRange(arg_spec.kwonlyargs)) \ {"self"} |->
            IF arg \in SeqRange(arg_spec.kwonlyargs) THEN Keyword(arg) ELSE Standard(arg)]

\* component_class(**scheme_args): Python raises TypeError for a keyword
\* that is no argument of __init__ and for an absent argument without default
ConstructorRaises(arg_spec, scheme_args) ==
    LET n_defaults == IF arg_spec.defaults # None THEN Len(arg_spec.defaults[1]) ELSE 0
        positional == SeqRange(SubSeq(arg_spec.args, 1, Len(arg_spec.args) - n_defaults))
                         \ {"self"}
        keyword == {arg \in SeqRange(arg_spec.kwonlyargs) :
                       arg_spec.kwonlydefaults = None
                       \/ arg \notin DOMAIN arg_spec.kwonlydefaults[1]}
    IN  \/ \E arg \in DOMAIN scheme_args :
              arg \notin (SeqRange(arg_spec.args) \cup SeqRange(arg_spec.kwonlyargs)) \ {"self"}
        \/ \E arg \in positional \cup keyword : arg \notin DOMAIN scheme_args

\* Config.__instantiate_component: whether it raises, and the arguments it
\* reports missing
instantiate_component(arg_spec, scheme_args) ==
    LET args == get_obj_init_args(arg_spec)
        missing_args == {arg \in DOMAIN args : arg \notin DOMAIN scheme_args /\ args[arg] = "None"}
    IN  IF missing_args # {}
        THEN [raised |-> TRUE, missing_args |-> missing_args]
        ELSE [raised |-> ConstructorRaises(arg_spec, scheme_args), missing_args |-> {}]

\* cls(*args, **kwargs): Python raises TypeError in __init__ for more
\* positional values than arguments, for a keyword that is no argument, for
\* an argument given twice and for an absent argument without default
CallRaises(arg_spec, args, kwargs) ==
    LET arg_names == SelectSeq(arg_spec.args, LAMBDA arg : arg # "self")
        n_args == Len(arg_names)
        n_defaults == IF arg_spec.defaults # None THEN Len(arg_spec.defaults[1]) ELSE 0
        given == {arg_names[i] : i \in 1..(IF Len(args) < n_args THEN Len(args) ELSE n_args)}
        required == {arg_names[i] : i \in 1..(n_args - n_defaults)}
                       \cup {arg \in SeqRange(arg_spec.kwonlyargs) :
                                arg_spec.kwonlydefaults = None
                                \/ arg \notin DOMAIN arg_spec.kwonlydefaults[1]}
    IN  \/ Len(args) > n_args
        \/ \E arg \in DOMAIN kwargs :
              arg \notin SeqRange(arg_names) \cup SeqRange(arg_spec.kwonlyargs)
        \/ given \cap DOMAIN kwargs # {}
        \/ \E arg \in required : arg \notin given \cup DOMAIN kwargs

\* the dict a given the items of the dict b (dict.update)
DictUpdate(a, b) == [k \in DOMAIN a \cup DOMAIN b |-> IF k \in DOMAIN b THEN b[k] ELSE a[k]]

\* Component.__new__ with the defaults taken from the front of the tuple
Component_new_front_defaults(arg_spec, args, kwargs) ==
    LET arg_names == SelectSeq(arg_spec.args, LAMBDA arg : arg # "self")
        arg_defaults == IF arg_spec.defaults # None THEN arg_spec.defaults[1] ELSE << >>
        n_args == Len(arg_names)
        defaults == [arg \in SeqRange(arg_names) |->
                        LET i == IndexOf(arg_names, arg)
                            j == n_args - i + 1
                        IN  IF j \in 1..Len(arg_defaults) THEN arg_defaults[j] ELSE "None"]
        with_kwonly == IF arg_spec.kwonlydefaults # None
                       THEN DictUpdate(defaults, arg_spec.kwonlydefaults[1])
                       ELSE defaults
        positional == [arg \in {arg_names[i] : i \in 1..Len(args)} |->
                          args[IndexOf(arg_names, arg)]]
    IN  IF Len(args) > n_args THEN [raised |-> TRUE, params |-> EmptyDict]
        ELSE [raised |-> CallRaises(arg_spec, args, kwargs),
              params |-> DictUpdate(DictUpdate(with_kwonly, positional), kwargs)]

\* Component.__new__ followed by __init__: the params of the instance.  The
\* defaults are popped from the end of the tuple while the arguments are
\* walked from the last to the first; arg_names[i] raises IndexError for a
\* positional value beyond the arguments
Component_new(arg_spec, args, kwargs) ==
    LET arg_names == SelectSeq(arg_spec.args, LAMBDA arg : arg # "self")
        arg_defaults == IF arg_spec.defaults # None THEN arg_spec.defaults[1] ELSE << >>
        n_args == Len(arg_names)
        defaults == [arg \in SeqRange(arg_names) |->
                        LET i == IndexOf(arg_names, arg)
                            j == Len(arg_defaults) - (n_args - i)
                        IN  IF j \in 1..Len(arg_defaults) THEN arg_defaults[j] ELSE "None"]
        with_kwonly == IF arg_spec.kwonlydefaults # None
                       THEN DictUpdate(defaults, arg_spec.kwonlydefaults[1])
                       ELSE defaults
        positional == [arg \in {arg_names[i] : i \in 1..Len(args)} |->
                          args[IndexOf(arg_names, arg)]]
    IN  IF Len(args) > n_args THEN [raised |-> TRUE, params |-> EmptyDict]
        ELSE [raised |-> CallRaises(arg_spec, args, kwargs),
              params |-> DictUpdate(DictUpdate(with_kwonly, positional), kwargs)]

----------------------------------------------------------------------------
(* Building a Config from a dict.  A dict is an ordered dict; config_dict   *)
(* holds under each of its three top-level keys None (the key is absent)    *)
(* or a dict module -> class name -> component_params, component_params     *)
(* holding "schemes" (None or a dict scheme name -> None or arguments) and  *)
(* "Statistics" (None or the filters of a reducer).  The component classes  *)
(* of the module m take no constructor arguments.                           *)

\* str.lower
Lower(str) == [i \in 1..Len(str) |-> IF str[i] = "M" THEN "m" ELSE str[i]]

\* the classes the module m defines and the archetypes each is a subclass of
ModuleClasses ==
    [c \in {<<"A">>, <<"B">>, <<"P">>, <<"Q">>, <<"T">>, <<"U">>} |->
        CASE c \in {<<"A">>, <<"B">>, <<"P">>} -> {"Statistic"}
          [] c = <<"Q">> -> {"Statistic", "ReducedStatistic"}
          [] OTHER -> {"Reducer"}]

\* the classes of m that leave an abstract method undefined
AbstractClasses == {<<"P">>}

\* whether component_class(**scheme_args) raises in Component.__new__:
\* object.__new__ refuses a class with abstract methods
new_raises(component_class) == component_class \in AbstractClasses

\* __init__(self) of the classes of m
ClassArgSpec ==
    [args |-> <<"self">>, defaults |-> None, kwonlyargs |-> << >>, kwonlydefaults |-> None]

\* Config.__get_module for the references of the model: m is importable
get_module(module_reference) ==
    IF module_reference = <<"m">> THEN Some(module_reference) ELSE None

\* Config.__available_dependencies: the optional dependencies the
\* environment has; d is available and u is not
available_dependencies == {<<"d">>}

\* component_params.get(key)
ParamGet(component_params, key) ==
    IF key \in DOMAIN component_params THEN component_params[key] ELSE None

\* whether a dependency named in component_params is not available
missing_dependencies(component_params) ==
    LET dependencies == ParamGet(component_params, "dependencies")
    IN  /\ Truthy(dependencies)
        /\ \E i \in 1..Len(yaml_str_list_to_list(dependencies)) :
               yaml_str_list_to_list(dependencies)[i] \notin available_dependencies

\* the class attribute Config.__cached_module_classes: the dict created with
\* the class.  No statement writes to it: __init__ gives every Config an
\* attribute of the same name, which is the dict __add_component writes to.
Config_cached_module_classes == EmptyDict

\* the class the class attribute holds for a name, None if it holds none
cached_component_class(component_archetype_name, full_component_name) ==
    LET component_classes == DictGet(Config_cached_module_classes, component_archetype_name)
    IN  IF component_classes = None THEN None
        ELSE DictGet(component_classes[1], full_component_name)

\* a __get_component_class without the issubclass test
get_component_class_any(component_archetype_name, component_name, component_params, module) ==
    IF cached_component_class(component_archetype_name,
                              get_full_component_name(module[1], component_name)) # None
    THEN cached_component_class(component_archetype_name,
                                get_full_component_name(module[1], component_name))
    ELSE IF component_name \notin DOMAIN ModuleClasses THEN None
    ELSE IF missing_dependencies(component_params) THEN None
    ELSE Some(component_name)

\* Config.__get_component_class: the class the class attribute
\* __cached_module_classes holds, else None when the class is not found, is
\* no subclass of the archetype or misses a dependency
get_component_class(component_archetype_name, component_name, component_params, module) ==
    IF cached_component_class(component_archetype_name,
                              get_full_component_name(module[1], component_name)) # None
    THEN cached_component_class(component_archetype_name,
                                get_full_component_name(module[1], component_name))
    ELSE IF component_name \notin DOMAIN ModuleClasses THEN None
    ELSE IF component_archetype_name \notin ModuleClasses[component_name] THEN None
    ELSE IF missing_dependencies(component_params) THEN None
    ELSE Some(component_name)

\* Config.__get_config_top_level
get_config_top_level(config_dict, level_name) ==
    LET level_dict == config_dict[level_name]
    IN  IF level_dict = None \/ level_dict[1] = << >> THEN << >>
        ELSE [i \in 1..Len(level_dict[1]) |->
                 <<Lower(level_dict[1][i][1]), level_dict[1][i][2]>>]

\* the object a constructor call returns: one no Config has been given yet
NewObject(cs, component_class) ==
    CHOOSE c \in Components : ComponentType[c] = component_class /\ cs.scheme[c] = None

\* the components of one class entry, in the order of its schemes; an item
\* with error set stands for the exception raised at that point
ClassItems(component_archetype_name, module_reference, component_name, component_params) ==
    IF get_module(module_reference) = None
    THEN << [error |-> TRUE, class |-> component_name, scheme_name |-> << >>,
             scheme_args |-> None, Statistics |-> None] >>
    ELSE IF get_component_class(component_archetype_name, component_name, component_params,
                                get_module(module_reference)) = None
    THEN << >>
    ELSE IF component_params.schemes = None \/ component_params.schemes[1] = << >>
    THEN << [error |-> TRUE, class |-> component_name, scheme_name |-> << >>,
             scheme_args |-> None, Statistics |-> None] >>
    ELSE [k \in 1..Len(component_params.schemes[1]) |->
             [error |-> FALSE, class |-> component_name,
              scheme_name |-> component_params.schemes[1][k][1],
              scheme_args |-> component_params.schemes[1][k][2],
              Statistics |-> component_params.Statistics]]

\* Config.__yield_instantiated_components: what the generator goes through
yield_instantiated_components(component_archetype_name, component_spec) ==
    Concat([i \in 1..Len(component_spec) |->
        Concat([j \in 1..Len(component_spec[i][2]) |->
            ClassItems(component_archetype_name, component_spec[i][1],
                       component_spec[i][2][j][1], component_spec[i][2][j][2])])])

\* one round of a loop of __build_config_scheme
BuildStep(cs, component_archetype_name, item) ==
    IF item.error THEN [cs |-> cs, raised |-> TRUE]
    ELSE IF instantiate_component(ClassArgSpec,
                                  IF item.scheme_args = None THEN EmptyDict
                                  ELSE item.scheme_args[1]).raised
    THEN [cs |-> cs, raised |-> TRUE]
    ELSE IF new_raises(item.class) THEN [cs |-> cs, raised |-> TRUE]
    ELSE LET component == NewObject(cs, item.class)
             o == add_component(cs, component, component_archetype_name, item.scheme_name)
         IN  IF o.raised \/ component_archetype_name # "Reducer" THEN o
             ELSE [cs |-> add_reducer_statistic_filters(o.cs, component, item.Statistics),
                   raised |-> FALSE]

RECURSIVE BuildLoop(_, _, _)
BuildLoop(o, component_archetype_name, items) ==
    IF items = << >> \/ o.raised THEN o
    ELSE BuildLoop(BuildStep(o.cs, component_archetype_name, Head(items)),
                   component_archetype_name, Tail(items))

\* a build that goes through the Reducers before the Statistics
build_config_scheme_reducers_first(cs, stats_spec, reducers_spec, rstats_spec) ==
    BuildLoop(
        BuildLoop(
            BuildLoop([cs |-> cs, raised |-> FALSE], "Reducer",
                      yield_instantiated_components("Reducer", reducers_spec)),
            "Statistic", yield_instantiated_components("Statistic", stats_spec)),
        "ReducedStatistic", yield_instantiated_components("ReducedStatistic", rstats_spec))

\* Config.__build_config_scheme
build_config_scheme(cs, stats_spec, reducers_spec, rstats_spec) ==
    BuildLoop(
        BuildLoop(
            BuildLoop([cs |-> cs, raised |-> FALSE], "Statistic",
                      yield_instantiated_components("Statistic", stats_spec)),
            "ReducedStatistic", yield_instantiated_components("ReducedStatistic", rstats_spec)),
        "Reducer", yield_instantiated_components("Reducer", reducers_spec))

\* whether __process_config_file finds the configuration invalid
invalid_config(stats_spec, reducers_spec, rstats_spec) ==
    (stats_spec = << >> /\ reducers_spec = << >>) /\ rstats_spec = << >>

\* Config.__process_config_file on a Config just constructed
process_config_file(cs, config_dict) ==
    LET stats_spec == get_config_top_level(config_dict, "Statistics")
        reducers_spec == get_config_top_level(config_dict, "Reducers")
        rstats_spec == get_config_top_level(config_dict, "ReducedStatistics")
    IN  IF invalid_config(stats_spec, reducers_spec, rstats_spec)
        THEN [cs |-> cs, raised |-> TRUE, invalid |-> TRUE]
        ELSE [invalid |-> FALSE]
             @@ build_config_scheme(cs, stats_spec, reducers_spec, rstats_spec)

\* Config.from_dict(name, config_dict)
from_dict(scheme_, config_dict) ==
    process_config_file([config |-> EmptyConfig, scheme |-> scheme_], config_dict)

\* a class entry with the schemes named, each without arguments
ClassEntry(component_name, scheme_names, filters) ==
    <<component_name,
      [schemes |-> Some([k \in 1..Len(scheme_names) |-> <<scheme_names[k], None>>]),
       Statistics |-> filters]>>

\* a class entry with the schemes named and the dependencies given
DependentEntry(component_name, scheme_names, dependencies) ==
    <<component_name,
      [schemes |-> Some([k \in 1..Len(scheme_names) |-> <<scheme_names[k], None>>]),
       Statistics |-> None, dependencies |-> dependencies]>>

\* a top-level section of one module
Section(module_reference, entries) == Some(<< <<module_reference, entries>> >>)

----------------------------------------------------------------------------
(* Adding a component by name.  The reference m is a package module or the *)
(* path of a module file (kind); every other reference resolves to          *)
(* nothing.  A namespace is known by the number of the execution of the    *)
(* module's code that produced it; cached_modules maps the references      *)
(* loaded to their namespaces.                                              *)

\* Config.__get_cached_module
get_cached_module(cached_modules, module_reference) ==
    DictGet(cached_modules, module_reference)

\* the outcome of looking a module up
Looked(module, cached_modules, ran, raised) ==
    [module |-> module, cached_modules |-> cached_modules, ran |-> ran, raised |-> raised]

\* Config.__load_module_file with suppress_warning=True: run_path executes
\* the file, and raises for a path that is no file
load_module_file(cached_modules, kind, module_path, refresh_module) ==
    LET module == DictGet(cached_modules, module_path)
    IN  IF module # None /\ ~refresh_module THEN Looked(module, cached_modules, FALSE, FALSE)
        ELSE IF ~(kind = "file" /\ module_path = <<"m">>)
        THEN Looked(None, cached_modules, FALSE, TRUE)
        ELSE LET namespace == IF module = None THEN 1 ELSE module[1] + 1
             IN  Looked(Some(namespace), DictSet(cached_modules, module_path, namespace),
                        TRUE, FALSE)

\* Config.__get_module(module_reference, refresh_module=refresh_module):
\* the cache, then importlib.import_module, then the modules config.py has
\* imported (no reference of the model is among them), then the file
Config_get_module(cached_modules, kind, module_reference, refresh_module) ==
    IF get_cached_module(cached_modules, module_reference) # None
    THEN Looked(get_cached_module(cached_modules, module_reference), cached_modules,
                FALSE, FALSE)
    ELSE IF kind = "package" /\ module_reference = <<"m">>
    THEN Looked(Some(1), cached_modules, FALSE, FALSE)
    ELSE load_module_file(cached_modules, kind, module_reference, refresh_module)

\* the outcome of an add by name
Added(cs, raised, ran) == [cs |-> cs, raised |-> raised, ran |-> ran]

\* Config.__get_component_by_name: the class is looked up as a Statistic
\* whatever the archetype; for a class not found __instantiate_component
\* calls None
get_component_by_name(cs, kind, module_reference, component_archetype_name, component_name, component_params, scheme_name, refresh_module) ==
    LET looked == Config_get_module(cs.config.cached_modules, kind, module_reference,
                                    refresh_module)
        cs1 == [cs EXCEPT !.config.cached_modules = looked.cached_modules]
        statistic_class == get_component_class("Statistic", component_name, component_params,
                                               get_module(module_reference))
    IN  IF looked.raised \/ looked.module = None
        THEN [component |-> None] @@ Added(cs1, TRUE, looked.ran)
        ELSE IF statistic_class = None
        THEN [component |-> None] @@ Added(cs1, TRUE, looked.ran)
        ELSE IF instantiate_component(ClassArgSpec, component_params).raised
        THEN [component |-> None] @@ Added(cs1, TRUE, looked.ran)
        ELSE IF new_raises(statistic_class[1])
        THEN [component |-> None] @@ Added(cs1, TRUE, looked.ran)
        ELSE [component |-> Some(NewObject(cs1, statistic_class[1]))]
             @@ Added(cs1, FALSE, looked.ran)

\* Config.add_statistic_by_name
add_statistic_by_name(cs, kind, module_reference, statistic_name, statistic_params, scheme_name, refresh_module) ==
    LET o == get_component_by_name(cs, kind, module_reference, "Statistic", statistic_name,
                                   statistic_params, scheme_name, refresh_module)
    IN  IF o.raised THEN Added(o.cs, TRUE, o.ran)
        ELSE [ran |-> o.ran] @@ add_statistic(o.cs, o.component[1], scheme_name)

\* Config.add_reduced_statistic_by_name
add_reduced_statistic_by_name(cs, kind, module_reference, reduced_statistic_name, reduced_statistic_params, scheme_name, refresh_module) ==
    LET o == get_component_by_name(cs, kind, module_reference, "Statistic",
                                   reduced_statistic_name, reduced_statistic_params,
                                   scheme_name, refresh_module)
    IN  IF o.raised THEN Added(o.cs, TRUE, o.ran)
        ELSE [ran |-> o.ran] @@ add_reduced_statistic(o.cs, o.component[1], scheme_name)

\* Config.add_reducer_by_name
add_reducer_by_name(cs, kind, module_reference, reducer_name, reducer_params, scheme_name, filters, refresh_module) ==
    LET o == get_component_by_name(cs, kind, module_reference, "Reducer", reducer_name,
                                   reducer_params, scheme_name, refresh_module)
    IN  IF o.raised THEN Added(o.cs, TRUE, o.ran)
        ELSE [ran |-> o.ran] @@ add_reducer(o.cs, o.component[1], scheme_name, filters)

----------------------------------------------------------------------------
(* Exporting a Config.  The export is the mapping to_yaml builds; yaml.dump *)
(* writes it as text and yaml.load reads the same mapping of str, None,     *)
(* list and dict values back.                                               *)

\* the top-level key of an archetype: component_archetype.__name__ + "s"
ExportLevel(component_archetype_name) ==
    CASE component_archetype_name = "Statistic" -> "Statistics"
      [] component_archetype_name = "Reducer" -> "Reducers"
      [] OTHER -> "ReducedStatistics"

\* component.params as Component.__new__ builds it: the classes of m take
\* no constructor arguments
Component_params(component) == EmptyDict

\* Config.__add_export_component
add_export_component(yaml_dict, cs, component, component_archetype_name) ==
    LET level == ExportLevel(component_archetype_name)
        module_name == ComponentModule[component]
        scheme_name == cs.scheme[component][1]
        params == Component_params(component)
        module_dict == IF OdHas(yaml_dict[level], module_name)
                       THEN OdGet(yaml_dict[level], module_name) ELSE << >>
        component_name == ComponentType[component]
        component_dict == IF OdHas(module_dict, component_name)
                          THEN OdGet(module_dict, component_name)
                          ELSE [schemes |-> Some(<< >>), Statistics |-> None]
        schemes_dict == OdSet(component_dict.schemes[1], scheme_name,
                              IF params = EmptyDict THEN None ELSE Some(params))
    IN  [yaml_dict EXCEPT ![level] =
            OdSet(@, module_name,
                  OdSet(module_dict, component_name,
                        [component_dict EXCEPT !.schemes = Some(schemes_dict)]))]

\* Config.__add_export_reducer_statistic_filters, after the reducer has been
\* exported: list(applicable_stats)
add_export_reducer_statistic_filters(yaml_dict, cs, reducer) ==
    LET module_name == ComponentModule[reducer]
        module_dict == OdGet(yaml_dict["Reducers"], module_name)
        reducer_name == ComponentType[reducer]
        applicable_stats == get_reducer_filters(cs.config, reducer)
    IN  IF Truthy(applicable_stats)
        THEN [yaml_dict EXCEPT !["Reducers"] =
                 OdSet(@, module_name,
                       OdSet(module_dict, reducer_name,
                             [OdGet(module_dict, reducer_name) EXCEPT
                                 !.Statistics = ListFilter(IterFilters(applicable_stats[1]))]))]
        ELSE yaml_dict

RECURSIVE ExportLoop(_, _, _, _)
ExportLoop(yaml_dict, cs, components, component_archetype_name) ==
    IF components = << >> THEN yaml_dict
    ELSE LET exported == add_export_component(yaml_dict, cs, Head(components),
                                              component_archetype_name)
         IN  ExportLoop(IF component_archetype_name = "Reducer"
                        THEN add_export_reducer_statistic_filters(exported, cs, Head(components))
                        ELSE exported,
                        cs, Tail(components), component_archetype_name)

\* the values of a partition, in its order
OdValues(od) == [i \in 1..Len(od) |-> od[i][2]]

\* Config.to_yaml: None, or the mapping exported
to_yaml(cs) ==
    LET statistics == OdValues(cs.config.config_scheme["Statistic"])
        reducers == OdValues(cs.config.config_scheme["Reducer"])
        reduced_statistics == OdValues(cs.config.config_scheme["ReducedStatistic"])
        yaml_dict == [Statistics |-> << >>, Reducers |-> << >>, ReducedStatistics |-> << >>]
        exported ==
            ExportLoop(
                ExportLoop(ExportLoop(yaml_dict, cs, statistics, "Statistic"),
                           cs, reducers, "Reducer"),
                cs, reduced_statistics, "ReducedStatistic")
    IN  IF statistics = << >> \/ reducers = << >> \/ reduced_statistics = << >> THEN None
        ELSE Some([Statistics |-> Some(exported.Statistics),
                   Reducers |-> Some(exported.Reducers),
                   ReducedStatistics |-> Some(exported.ReducedStatistics)])

\* Config.from_yaml(name, yaml_string) on the text of an export
from_yaml(scheme_, yaml_dict) ==
    process_config_file([config |-> EmptyConfig, scheme |-> scheme_], yaml_dict)

----------------------------------------------------------------------------
(* History *)

\* the record of one call; fields that do not apply hold "-", None or FALSE
Call(op, s, d, r, ret, computed, raised, pending, changed, before) ==
    [op |-> op, s |-> s, d |-> d, r |-> r, ret |-> ret, computed |-> computed,
     raised |-> raised, pending |-> pending, changed |-> changed, before |-> before,
     prior |-> None]

NoCall == Call("-", "-", "-", "-", None, FALSE, FALSE, {}, FALSE, None)

\* the dataset and the object returned of the call before, when that was a
\* calculate of the same statistic that returned
Prior(s) ==
    IF last.op = "calculate" /\ last.s = s /\ ~last.raised
    THEN Some([d |-> last.d, ret |-> last.ret])
    ELSE None

\* the arrays and the result objects as they are before a call
Before == Some([data |-> data, heap |-> heap])

\* the statistics the statistic cache holds a result of for the dataset
CachedFor(g, dataset) == IF dataset \in DOMAIN g.sc THEN DOMAIN g.sc[dataset] ELSE {}

\* the (statistic, reducer, result) entries of the reducer cache that hang
\* off the statistics cached for the dataset
Invalidated(g, dataset) ==
    IF dataset \notin DOMAIN g.sc THEN {}
    ELSE UNION {{<<s, r, g.rc[s][r]>> : r \in DOMAIN g.rc[s]} :
                    s \in DOMAIN g.sc[dataset] \cap DOMAIN g.rc}

\* the record of one call on the Config; before is the Config before it
ConfigCall(op, component, archetype, scheme_name, raised) ==
    [op |-> op, component |-> component, archetype |-> archetype,
     scheme_name |-> scheme_name, raised |-> raised, before |-> config]

SetConf(cs) ==
    /\ config' = cs.config
    /\ scheme' = cs.scheme

SetGraph(g) ==
    /\ data' = g.data
    /\ Statistic_cached_results' = g.sc
    /\ cached_result' = g.cr
    /\ Reducer_cached_results' = g.rc
    /\ heap' = g.heap

----------------------------------------------------------------------------
(* The pyspoc graph: actions *)

InitArrays == {<< <<1, 0>>, <<0, 1>> >>, << <<1, 1>>, <<0, 1>> >>}

\* no result cached, no call made
InitGraph ==
    /\ Statistic_cached_results = EmptyDict
    /\ cached_result = EmptyDict
    /\ Reducer_cached_results = EmptyDict
    /\ heap = << >>
    /\ stale = {}
    /\ last = NoCall
    /\ results_dict = EmptyDict

\* a Config as constructed, components as constructed
InitConfig ==
    /\ config = EmptyConfig
    /\ scheme = [c \in Components |-> None]
    /\ statistic_filters = None

Init ==
    /\ data \in [Datasets -> InitArrays]
    /\ InitGraph
    /\ input = None
    /\ InitConfig

\* statistic.calculate(dataset)
Calculate(s, d, raises) ==
    LET o == Statistic_calculate(Graph, s, d, raises)
    IN  /\ Len(o.g.heap) <= MaxObjects
        /\ SetGraph(o.g)
        /\ UNCHANGED <<confVars, results_dict, input>>
        /\ stale' = stale \cup Invalidated(Graph, d)
        /\ last' = [Call("calculate", s, d, "-", o.ret, o.computed, o.raised, {},
                         FALSE, Before)
                        EXCEPT !.prior = Prior(s)]

\* Statistic.uncache(dataset)
Uncache(d) ==
    /\ SetGraph(Statistic_uncache(Graph, d))
    /\ UNCHANGED <<confVars, results_dict, input>>
    /\ stale' = stale \cup Invalidated(Graph, d)
    /\ last' = Call("uncache", "-", d, "-", None, FALSE, FALSE, {}, FALSE, None)

\* dataset.uncache()
DatasetUncache(d) ==
    /\ SetGraph(Dataset_uncache(Graph, d))
    /\ UNCHANGED <<confVars, results_dict, input>>
    /\ stale' = stale \cup Invalidated(Graph, d)
    /\ last' = Call("dataset_uncache", "-", d, "-", None, FALSE, FALSE, {}, FALSE, None)

\* reducer.calculate(statistic)
Reduce(r, s, raises) ==
    LET o == Reducer_calculate(Graph, r, s, raises)
        pending == {t \in stale : t[1] = s /\ t[2] = r}
    IN  /\ Len(o.g.heap) <= MaxObjects
        /\ SetGraph(o.g)
        /\ UNCHANGED <<confVars, results_dict, input>>
        /\ stale' = stale \ pending
        /\ last' = Call("reduce", s, "-", r, o.ret, o.computed, o.raised,
                        {t[3] : t \in pending}, FALSE, Before)

\* Reducer.uncache(statistic)
ReducerUncache(s) ==
    /\ SetGraph(Reducer_uncache(Graph, s))
    /\ UNCHANGED <<confVars, results_dict, input>>
    /\ stale' = stale
    /\ last' = Call("reducer_uncache", s, "-", "-", None, FALSE, FALSE, {}, FALSE, None)

\* dataset.remove_variable(var_indices)
RemoveVariable(d, var_indices) ==
    LET o == remove_variable(Graph, d, var_indices)
    IN  /\ SetGraph(o.g)
        /\ UNCHANGED <<confVars, results_dict, input>>
        /\ stale' = stale
        /\ last' = Call("remove_variable", "-", d, "-", None, FALSE, o.raised, {},
                        o.g.data[d] # data[d], None)

\* dataset.add_variable(var_data)
AddVariable(d) ==
    LET o == add_variable(Graph, d)
    IN  /\ SetGraph(o.g)
        /\ UNCHANGED <<confVars, results_dict, input>>
        /\ stale' = stale
        /\ last' = Call("add_variable", "-", d, "-", None, FALSE, o.raised, {},
                        o.g.data[d] # data[d], None)

Next ==
    \/ \E s \in Statistics, d \in Datasets, raises \in BOOLEAN : Calculate(s, d, raises)
    \/ \E d \in Datasets : Uncache(d)
    \/ \E d \in Datasets : DatasetUncache(d)
    \/ \E r \in Reducers, s \in Statistics, raises \in BOOLEAN : Reduce(r, s, raises)
    \/ \E s \in Statistics : ReducerUncache(s)

Spec == Init /\ [][Next]_vars

----------------------------------------------------------------------------
(* The pyspoc graph of one dataset, one statistic and one reducer, with    *)
(* the dataset's mutation operations                                       *)

InitDataset ==
    /\ Init
    /\ data = [d \in Datasets |-> << <<1, 0>>, <<0, 1>> >>]

NextDataset ==
    \/ \E raises \in BOOLEAN : Calculate("S1", "D1", raises)
    \/ DatasetUncache("D1")
    \/ \E raises \in BOOLEAN : Reduce("R1", "S1", raises)
    \/ \E var_indices \in SUBSET (0..MaxVarIndex) : RemoveVariable("D1", var_indices)
    \/ AddVariable("D1")

SpecDataset == InitDataset /\ [][NextDataset]_vars

----------------------------------------------------------------------------
(* The pyss graph: every statistic object holds its own cached result *)

\* statistic.calculate(dataset.data)
PyssCalculate(s, d, raises) ==
    LET o == Dispatch_calculate(Graph, s, d, raises)
    IN  /\ Len(o.g.heap) <= MaxObjects
        /\ SetGraph(o.g)
        /\ UNCHANGED <<confVars, results_dict, input>>
        /\ stale' = stale
        /\ last' = [Call("calculate", s, d, "-", o.ret, o.computed, o.raised, {},
                         FALSE, Before)
                        EXCEPT !.prior = Prior(s)]

\* statistic.uncache()
PyssUncache(s) ==
    /\ SetGraph(PyssStatistic_uncache(Graph, s))
    /\ UNCHANGED <<confVars, results_dict, input>>
    /\ stale' = stale
    /\ last' = Call("uncache", s, "-", "-", None, FALSE, FALSE, {}, FALSE, None)

NextPyss ==
    \/ \E s \in Statistics \cup ReducedStatistics, d \in Datasets, raises \in BOOLEAN :
          PyssCalculate(s, d, raises)
    \/ \E s \in Statistics \cup ReducedStatistics : PyssUncache(s)
    \/ \E r \in Reducers, s \in Statistics, raises \in BOOLEAN : Reduce(r, s, raises)
    \/ \E s \in Statistics : ReducerUncache(s)

SpecPyss == Init /\ [][NextPyss]_vars

----------------------------------------------------------------------------
(* The Config: actions *)

\* config.add_statistic(statistic, scheme_name)
AddStatistic(statistic, scheme_name) ==
    LET o == add_statistic(Conf, statistic, scheme_name)
    IN  /\ SetConf(o.cs)
        /\ last' = ConfigCall("add_statistic", statistic,
                              IF StatisticKind[statistic] = "reduced"
                              THEN "ReducedStatistic" ELSE "Statistic",
                              scheme_name, o.raised)
        /\ UNCHANGED <<graphVars, statistic_filters, results_dict, input>>

\* config.add_reduced_statistic(reduced_statistic, scheme_name)
AddReducedStatistic(reduced_statistic, scheme_name) ==
    LET o == add_reduced_statistic(Conf, reduced_statistic, scheme_name)
    IN  /\ SetConf(o.cs)
        /\ last' = ConfigCall("add_reduced_statistic", reduced_statistic,
                              "ReducedStatistic", scheme_name, o.raised)
        /\ UNCHANGED <<graphVars, statistic_filters, results_dict, input>>

\* config.add_reducer(reducer, scheme_name, statistic_filters)
AddReducer(reducer, scheme_name) ==
    LET o == add_reducer(Conf, reducer, scheme_name, statistic_filters)
    IN  /\ SetConf(o.cs)
        /\ last' = ConfigCall("add_reducer", reducer, "Reducer", scheme_name, o.raised)
        /\ UNCHANGED <<graphVars, statistic_filters, results_dict, input>>

\* the strings of at most n characters
Strings(alphabet, n) == UNION {[1..k -> alphabet] : k \in 0..n}

FilterAlphabet == {"m", ".", "A", "*", " "}

\* the elements of the filter lists
ListPatterns ==
    {<<"m", ".", "A", ".", "*">>, <<"*", ".", "s">>, <<"m", " ">>, <<".", ".", "B">>}

FilterInputs ==
    {None}
    \cup {StrFilter(str) : str \in Strings(FilterAlphabet, MaxFilterLen)}
    \cup {ListFilter(list) : list \in UNION {[1..k -> ListPatterns] : k \in 0..MaxFilterList}}

\* one Config given the statistics m.A.s, m.B.s and m.A.t and a reducer, in
\* any order, the reducer with any filter
InitFilter ==
    /\ data = [d \in Datasets |-> << <<1, 0>>, <<0, 1>> >>]
    /\ InitGraph
    /\ input = None
    /\ config = EmptyConfig
    /\ scheme = [c \in Components |-> None]
    /\ statistic_filters \in FilterInputs

NextFilter ==
    \/ AddStatistic("S1", <<"s">>)
    \/ AddStatistic("S2", <<"s">>)
    \/ AddStatistic("S3", <<"t">>)
    \/ AddReducer("R1", <<"s">>)

SpecFilter == InitFilter /\ [][NextFilter]_vars

\* one Config given statistics, a reduced statistic and a reducer under the
\* scheme names s and t
InitConfigs ==
    /\ data = [d \in Datasets |-> << <<1, 0>>, <<0, 1>> >>]
    /\ InitGraph
    /\ input = None
    /\ config = EmptyConfig
    /\ scheme = [c \in Components |-> None]
    /\ statistic_filters \in {None, StrFilter(<<"m", ".", "A", ".", "*">>)}

NextConfig ==
    \/ \E statistic \in {"S1", "S3"}, scheme_name \in Schemes :
          AddStatistic(statistic, scheme_name)
    \/ AddStatistic("S2", <<"s">>)
    \/ AddStatistic("Q1", <<"s">>)
    \/ AddReducedStatistic("Q2", <<"s">>)
    \/ \E scheme_name \in Schemes : AddReducer("R1", scheme_name)

SpecConfig == InitConfigs /\ [][NextConfig]_vars

\* config.remove_statistic(statistic)
RemoveStatistic(statistic) ==
    LET o == remove_statistic(Conf, statistic)
    IN  /\ SetConf(o.cs)
        /\ last' = [ConfigCall("remove_statistic", statistic, "Statistic",
                               scheme[statistic], o.raised)
                        EXCEPT !.before = None] @@ [removed |-> o.component]
        /\ UNCHANGED <<graphVars, statistic_filters, results_dict, input>>

\* config.remove_reducer(reducer)
RemoveReducer(reducer) ==
    LET o == remove_reducer(Conf, reducer)
    IN  /\ SetConf(o.cs)
        /\ last' = [ConfigCall("remove_reducer", reducer, "Reducer",
                               scheme[reducer], o.raised)
                        EXCEPT !.before = None] @@ [removed |-> o.component]
        /\ UNCHANGED <<graphVars, statistic_filters, results_dict, input>>

\* one Config whose reducers are added with the filter m.A.* or [*.s]
InitResolved ==
    /\ data = [d \in Datasets |-> << <<1, 0>>, <<0, 1>> >>]
    /\ InitGraph
    /\ input = None
    /\ config = EmptyConfig
    /\ scheme = [c \in Components |-> None]
    /\ statistic_filters \in {StrFilter(<<"m", ".", "A", ".", "*">>),
                              ListFilter(<< <<"*", ".", "s">> >>)}

NextResolved ==
    \/ \E scheme_name \in Schemes : AddStatistic("S1", scheme_name)
    \/ AddStatistic("S2", <<"s">>)
    \/ AddStatistic("Q1", <<"s">>)
    \/ \E statistic \in {"S1", "S2", "Q1"} : RemoveStatistic(statistic)
    \/ AddReducer("R1", <<"s">>)
    \/ RemoveReducer("R1")

SpecResolved == InitResolved /\ [][NextResolved]_vars

----------------------------------------------------------------------------
(* The Calculator: one Calculator on dataset D1 and one Config *)

\* in one run the compute of at most one statistic or reduced statistic
\* raises, and that of one reducer on at most one statistic
Raisings ==
    {[statistics |-> statistics, pairs |-> pairs] :
        statistics \in {{}} \cup {{s} : s \in ConfigStatistics \cup ConfigReducedStatistics},
        pairs \in {{}} \cup {{<<s, r>>} : s \in ConfigStatistics, r \in Reducers}}

\* calculator.compute(config), st being the run state compute ends in
Compute(d, st) ==
    /\ Len(st.g.heap) <= MaxRunObjects
    /\ SetGraph(st.g)
    /\ stale' = stale
    /\ results_dict' = IF st.raised THEN results_dict ELSE st.results
    /\ last' = [op |-> "compute", d |-> d, raised |-> st.raised,
                stats_attempted |-> st.stats_attempted, stats_raised |-> st.stats_raised,
                pairs_attempted |-> st.pairs_attempted, pairs_raised |-> st.pairs_raised,
                rstats_attempted |-> st.rstats_attempted,
                rstats_raised |-> st.rstats_raised,
                columns |-> IF st.raised THEN << >>
                            ELSE results_table_columns(st.keys, st.inner_keys)]
    /\ UNCHANGED <<confVars, input>>

\* the Config built by adding the statistics m.A.s, m.B.s and m.A.t, the
\* reduced statistics m.Q.s and m.Q.t, the reducer m.T.s with the filters
\* given and the reducer m.U.s without filters
BuiltConf(filters) ==
    LET cs0 == [config |-> EmptyConfig, scheme |-> [c \in Components |-> None]]
        cs1 == add_statistic(cs0, "S1", <<"s">>).cs
        cs2 == add_statistic(cs1, "S2", <<"s">>).cs
        cs3 == add_statistic(cs2, "S3", <<"t">>).cs
        cs4 == add_statistic(cs3, "Q1", <<"s">>).cs
        cs5 == add_reduced_statistic(cs4, "Q2", <<"t">>).cs
        cs6 == add_reducer(cs5, "R1", <<"s">>, filters).cs
    IN  add_reducer(cs6, "R2", <<"s">>, None).cs

\* the Config built by adding the two reduced statistics only
BuiltConfReduced ==
    LET cs0 == [config |-> EmptyConfig, scheme |-> [c \in Components |-> None]]
        cs1 == add_statistic(cs0, "Q1", <<"s">>).cs
    IN  add_reduced_statistic(cs1, "Q2", <<"t">>).cs

\* the Config built by from_dict from a dict that names the classes Q and A
\* under Statistics, the class T with the filters given under Reducers and
\* the class Q under ReducedStatistics
BuiltConfDict(filters) ==
    from_dict([c \in Components |-> None],
              [Statistics |-> Section(<<"m">>, <<ClassEntry(<<"Q">>, << <<"s">> >>, None),
                                                 ClassEntry(<<"A">>, << <<"s">> >>, None)>>),
               Reducers |-> Section(<<"m">>, <<ClassEntry(<<"T">>, << <<"s">> >>, filters)>>),
               ReducedStatistics |->
                   Section(<<"m">>, <<ClassEntry(<<"Q">>, << <<"t">> >>, None)>>)]).cs

CalcFilters ==
    {None,
     StrFilter(<<"m", ".", "A", ".", "*">>),
     StrFilter(<<"m", ".", "B", ".", "s">>),
     ListFilter(<< <<"m", ".", "A", ".", "s">> >>),
     ListFilter(<< <<"m", ".", "A", ".", "*">>, <<"m", ".", "B", ".", "s">> >>)}

\* the Calculators of the model: one constructed with the dataset D1, one
\* constructed with dataset=None
Calculators == {Calculator_init("D1"), Calculator_init(NoDataset)}

InitCalc ==
    /\ data = [d \in Datasets |-> << <<1, 0>>, <<0, 1>> >>]
    /\ InitGraph
    /\ input \in Calculators
    /\ \/ /\ statistic_filters \in CalcFilters
          /\ config = BuiltConf(statistic_filters).config
          /\ scheme = BuiltConf(statistic_filters).scheme
       \/ /\ statistic_filters = None
          /\ config = BuiltConfReduced.config
          /\ scheme = BuiltConfReduced.scheme
       \/ /\ statistic_filters \in CalcFilters
          /\ config = BuiltConfDict(statistic_filters).config
          /\ scheme = BuiltConfDict(statistic_filters).scheme

NextCalc ==
    \E raising \in Raisings : Compute(input.dataset, compute(Graph, input, config, raising))

SpecCalc == InitCalc /\ [][NextCalc]_vars

----------------------------------------------------------------------------
(* Instantiating a component class *)

PyValues == {"None", "1"}

MaxPositional == 3

\* the argument specifications of __init__(self[, a[, b]][, *, k]) with
\* any defaults
ArgSpecs ==
    {[args |-> args, defaults |-> defaults, kwonlyargs |-> kwonlyargs,
      kwonlydefaults |-> kwonlydefaults] :
        args \in {<<"self">>, <<"self", "a">>, <<"self", "a", "b">>},
        defaults \in {None} \cup {Some(d) : d \in [1..1 -> PyValues] \cup [1..2 -> PyValues]},
        kwonlyargs \in {<< >>, <<"k">>},
        kwonlydefaults \in {None} \cup {Some([arg \in {"k"} |-> v]) : v \in PyValues}}

ValidArgSpec(arg_spec) ==
    /\ arg_spec.defaults # None => Len(arg_spec.defaults[1]) < Len(arg_spec.args)
    /\ arg_spec.kwonlydefaults # None => arg_spec.kwonlyargs # << >>

\* the scheme arguments: a dict over some of a, b, k and the name z that is
\* no argument of any of the classes
SchemeArgs == UNION {[names -> {"1"}] : names \in SUBSET {"a", "b", "k", "z"}}

InitInstantiate ==
    /\ data = [d \in Datasets |-> << <<1, 0>>, <<0, 1>> >>]
    /\ InitGraph
    /\ InitConfig
    /\ input \in {[arg_spec |-> arg_spec, scheme_args |-> scheme_args] :
                     arg_spec \in {a \in ArgSpecs : ValidArgSpec(a)},
                     scheme_args \in SchemeArgs}

\* Config.__instantiate_component(..., component_class, scheme_name, scheme_args)
Instantiate ==
    /\ last = NoCall
    /\ last' = [op |-> "instantiate"] @@ instantiate_component(input.arg_spec, input.scheme_args)
    /\ UNCHANGED <<graphVars, confVars, results_dict, input>>

NextInstantiate == Instantiate

SpecInstantiate == InitInstantiate /\ [][NextInstantiate]_vars

----------------------------------------------------------------------------
(* Constructing a component *)

\* the positional values of a call
PositionalArgs == UNION {[1..k -> {"2"}] : k \in 0..MaxPositional}

\* the keyword values of a call: a dict over some of a, b, k and z
KeywordArgs == UNION {[names -> {"3"}] : names \in SUBSET {"a", "b", "k", "z"}}

InitParams ==
    /\ data = [d \in Datasets |-> << <<1, 0>>, <<0, 1>> >>]
    /\ InitGraph
    /\ InitConfig
    /\ input \in {[arg_spec |-> arg_spec, args |-> args, kwargs |-> kwargs] :
                     arg_spec \in {a \in ArgSpecs : ValidArgSpec(a)},
                     args \in PositionalArgs,
                     kwargs \in KeywordArgs}

\* component_class(*args, **kwargs), then component.params
Construct ==
    /\ last = NoCall
    /\ last' = [op |-> "new"] @@ Component_new(input.arg_spec, input.args, input.kwargs)
    /\ UNCHANGED <<graphVars, confVars, results_dict, input>>

NextParams == Construct

SpecParams == InitParams /\ [][NextParams]_vars

----------------------------------------------------------------------------
(* Building a Config from a dict *)

StatisticsSections ==
    {None, Some(<< >>),
     Section(<<"m">>, <<ClassEntry(<<"A">>, << <<"s">> >>, None)>>),
     Section(<<"M">>, <<ClassEntry(<<"A">>, << <<"s">>, <<"t">> >>, None)>>),
     Section(<<"m">>, <<ClassEntry(<<"A">>, << <<"s">> >>, None),
                        ClassEntry(<<"B">>, << <<"s">> >>, None)>>),
     Section(<<"m">>, <<ClassEntry(<<"Q">>, << <<"s">> >>, None)>>),
     Section(<<"m">>, <<ClassEntry(<<"T">>, << <<"s">> >>, None)>>),
     Section(<<"m">>, <<ClassEntry(<<"Z">>, << <<"s">> >>, None),
                        ClassEntry(<<"T">>, << <<"s">> >>, None),
                        ClassEntry(<<"A">>, << <<"s">>, <<"t">> >>, None)>>),
     Section(<<"m">>, <<ClassEntry(<<"P">>, << <<"s">> >>, None),
                        ClassEntry(<<"A">>, << <<"s">> >>, None)>>),
     Section(<<"m">>, <<DependentEntry(<<"A">>, << <<"s">> >>, StrFilter(<<"d", " ", "u">>)),
                        DependentEntry(<<"B">>, << <<"s">> >>, ListFilter(<< <<"d">> >>))>>)}

ReducersSections ==
    {None, Some(<< >>),
     Section(<<"m">>, <<ClassEntry(<<"T">>, << <<"s">> >>, None)>>),
     Section(<<"m">>, <<ClassEntry(<<"T">>, << <<"s">> >>,
                                   StrFilter(<<"m", ".", "A", ".", "*">>))>>),
     Section(<<"m">>, <<ClassEntry(<<"T">>, << <<"s">> >>, None),
                        ClassEntry(<<"U">>, << <<"s">> >>,
                                   ListFilter(<< <<"m", ".", "A", ".", "s">> >>))>>)}

ReducedStatisticsSections ==
    {None, Some(<< >>),
     Section(<<"m">>, <<ClassEntry(<<"Q">>, << <<"t">> >>, None)>>)}

ConfigDicts ==
    {[Statistics |-> statistics, Reducers |-> reducers, ReducedStatistics |-> rstats] :
        statistics \in StatisticsSections, reducers \in ReducersSections,
        rstats \in ReducedStatisticsSections}

InitDict ==
    /\ data = [d \in Datasets |-> << <<1, 0>>, <<0, 1>> >>]
    /\ InitGraph
    /\ InitConfig
    /\ input \in ConfigDicts

\* config = Config.from_dict(name, config_dict)
FromDict ==
    LET o == from_dict(scheme, input)
    IN  /\ last = NoCall
        /\ IF o.raised THEN UNCHANGED <<config, scheme>> ELSE SetConf(o.cs)
        /\ last' = [op |-> "from_dict", raised |-> o.raised, invalid |-> o.invalid]
        /\ UNCHANGED <<graphVars, statistic_filters, results_dict, input>>

\* yaml_text = config.to_yaml()
ToYaml ==
    /\ last.op = "from_dict" /\ ~last.raised
    /\ last' = [op |-> "to_yaml", ret |-> to_yaml(Conf)]
    /\ UNCHANGED <<graphVars, confVars, results_dict, input>>

\* config = Config.from_yaml(name, yaml_text) with the text exported; the
\* components of the new Config are new objects, and the Config exported
\* and its components are dropped
FromYaml ==
    LET o == from_yaml([c \in Components |-> None], last.ret[1])
    IN  /\ last.op = "to_yaml" /\ last.ret # None
        /\ IF o.raised THEN UNCHANGED <<config, scheme>> ELSE SetConf(o.cs)
        /\ last' = [op |-> "from_yaml", raised |-> o.raised, before |-> config]
        /\ UNCHANGED <<graphVars, statistic_filters, results_dict, input>>

NextDict == FromDict \/ ToYaml \/ FromYaml

SpecDict == InitDict /\ [][NextDict]_vars

----------------------------------------------------------------------------
(* Adding components by name to one Config *)

\* the record of an add by name; before is the Config before it
ByNameCall(op, archetype, module_reference, component_name, scheme_name, refresh_module, o) ==
    [op |-> op, archetype |-> archetype, module_reference |-> module_reference,
     component_name |-> component_name, scheme_name |-> scheme_name,
     refresh_module |-> refresh_module, raised |-> o.raised, ran |-> o.ran,
     looked |-> Config_get_module(config.cached_modules, input.kind, module_reference,
                                  refresh_module),
     before |-> config]

\* the number of components one Config is given by name
MaxAdded == 2

\* the constructor of the class named has an object left to return
Constructible(component_name) ==
    component_name \in DOMAIN ModuleClasses
        => /\ Cardinality({c \in Components : scheme[c] # None}) < MaxAdded
           /\ \E c \in Components : ComponentType[c] = component_name /\ scheme[c] = None

ModuleReferences == {<<"m">>, <<"x">>}

\* classes of m, a Statistic, a ReducedStatistic and a Reducer, and a name
\* m does not define
ClassNames == {<<"A">>, <<"Q">>, <<"T">>, <<"Z">>}

InitByName ==
    /\ data = [d \in Datasets |-> << <<1, 0>>, <<0, 1>> >>]
    /\ InitGraph
    /\ InitConfig
    /\ input \in {[kind |-> "package"], [kind |-> "file"]}

\* config.add_statistic_by_name(module_reference, statistic_name, {},
\*                              scheme_name, refresh_module)
AddStatisticByName(module_reference, statistic_name, scheme_name, refresh_module) ==
    LET o == add_statistic_by_name(Conf, input.kind, module_reference, statistic_name,
                                   EmptyDict, scheme_name, refresh_module)
    IN  /\ Constructible(statistic_name)
        /\ SetConf(o.cs)
        /\ last' = ByNameCall("add_statistic_by_name", "Statistic", module_reference,
                              statistic_name, scheme_name, refresh_module, o)
        /\ UNCHANGED <<graphVars, statistic_filters, results_dict, input>>

\* config.add_reduced_statistic_by_name(module_reference, reduced_statistic_name,
\*                                      {}, scheme_name, refresh_module)
AddReducedStatisticByName(module_reference, reduced_statistic_name, scheme_name, refresh_module) ==
    LET o == add_reduced_statistic_by_name(Conf, input.kind, module_reference,
                                           reduced_statistic_name, EmptyDict, scheme_name,
                                           refresh_module)
    IN  /\ Constructible(reduced_statistic_name)
        /\ SetConf(o.cs)
        /\ last' = ByNameCall("add_reduced_statistic_by_name", "ReducedStatistic",
                              module_reference, reduced_statistic_name, scheme_name,
                              refresh_module, o)
        /\ UNCHANGED <<graphVars, statistic_filters, results_dict, input>>

\* config.add_reducer_by_name(module_reference, reducer_name, {}, scheme_name,
\*                            None, refresh_module)
AddReducerByName(module_reference, reducer_name, scheme_name, refresh_module) ==
    LET o == add_reducer_by_name(Conf, input.kind, module_reference, reducer_name,
                                 EmptyDict, scheme_name, None, refresh_module)
    IN  /\ Constructible(reducer_name)
        /\ SetConf(o.cs)
        /\ last' = ByNameCall("add_reducer_by_name", "Reducer", module_reference,
                              reducer_name, scheme_name, refresh_module, o)
        /\ UNCHANGED <<graphVars, statistic_filters, results_dict, input>>

NextByName ==
    \E module_reference \in ModuleReferences, component_name \in ClassNames,
       scheme_name \in Schemes, refresh_module \in BOOLEAN :
        \/ AddStatisticByName(module_reference, component_name, scheme_name, refresh_module)
        \/ AddReducedStatisticByName(module_reference, component_name, scheme_name,
                                     refresh_module)
        \/ AddReducerByName(module_reference, component_name, scheme_name, refresh_module)

SpecByName == InitByName /\ [][NextByName]_vars

----------------------------------------------------------------------------
(* A DynamicStatistic of pyss: S1 stands for an instance of a subclass      *)
(* whose compute is that of the plain statistic                             *)

\* most time slices of the data
MaxSlices == 3

\* the arrays of one row: 1 x 2 (static, held with one entry along a third
\* axis), 1 x 2 x t and 1 x 1 x t
DynamicInputs ==
    {[ndim |-> 2, array |-> <<row>>] : row \in [1..2 -> [1..1 -> 0..1]]}
    \cup {[ndim |-> 3, array |-> <<row>>] :
             row \in UNION {UNION {[1..p -> [1..t -> 0..1]] : t \in 1..(MaxSlices - p + 1)} :
                               p \in 1..2}}

InitDynamic ==
    /\ data = [d \in Datasets |-> << <<1, 0>>, <<0, 1>> >>]
    /\ InitGraph
    /\ InitConfig
    /\ input \in DynamicInputs

\* statistic.calculate(data) on a DynamicStatistic
DynamicCalculate(s, raises) ==
    LET o == DynamicStatistic_calculate(Graph, s, input.ndim,
                                        IF input.ndim = 2 THEN TimeSlice(input.array, 1)
                                        ELSE input.array,
                                        raises)
    IN  /\ Len(o.g.heap) <= MaxObjects
        /\ SetGraph(o.g)
        /\ stale' = stale
        /\ last' = [op |-> "dynamic_calculate", s |-> s, ret |-> o.ret,
                    computed |-> o.computed, raised |-> o.raised]
        /\ UNCHANGED <<confVars, results_dict, input>>

NextDynamic ==
    \/ \E raises \in BOOLEAN : DynamicCalculate("S1", raises)
    \/ PyssUncache("S1")

SpecDynamic == InitDynamic /\ [][NextDynamic]_vars

----------------------------------------------------------------------------
(* PairwiseStatistic.compute on n x p data *)

\* most rows and most columns of the data
MaxDim == 2

\* a class that is a PairwiseStatistic, and a DynamicStatistic or not, the
\* arguments of its constructor and the data of compute
PairwiseInputs ==
    {[is_dynamic |-> is_dynamic, pairwise_dim |-> pairwise_dim, is_ordered |-> is_ordered,
      array |-> array] :
        is_dynamic \in BOOLEAN, pairwise_dim \in {"n", "p", "t"}, is_ordered \in BOOLEAN,
        array \in UNION {[1..n -> [1..MaxDim -> 0..1]] : n \in 1..MaxDim}}

InitPairwise ==
    /\ data = [d \in Datasets |-> << <<1, 0>>, <<0, 1>> >>]
    /\ InitGraph
    /\ InitConfig
    /\ input \in PairwiseInputs

\* statistic = cls(pairwise_dim, is_ordered)
PairwiseStatisticInit ==
    /\ last = NoCall
    /\ last' = [op |-> "init",
                raised |-> PairwiseStatistic_init(input.is_dynamic, input.pairwise_dim,
                                                  input.is_ordered)]
    /\ UNCHANGED <<graphVars, confVars, results_dict, input>>

\* statistic.compute(data) on the PairwiseStatistic constructed
PairwiseStatisticCompute ==
    /\ last.op = "init" /\ ~last.raised
    /\ last' = [op |-> "pairwise"]
                @@ PairwiseStatistic_compute(input.pairwise_dim, input.is_ordered, input.array)
    /\ UNCHANGED <<graphVars, confVars, results_dict, input>>

NextPairwise == PairwiseStatisticInit \/ PairwiseStatisticCompute

SpecPairwise == InitPairwise /\ [][NextPairwise]_vars

----------------------------------------------------------------------------
(* Properties of the cached computation graph *)

\* C1: a calculate that directly follows a calculate of the same statistic
\* on the same dataset returns the object the first returned and does not
\* invoke compute.
C1_Idempotence ==
    (last.op = "calculate" /\ last.prior # None /\ last.prior[1].d = last.d)
        => (last.ret = last.prior[1].ret /\ ~last.computed)

\* C2: once Statistic.uncache(D) has run, no reducer cache entry remains
\* for a (statistic cached for D, reducer) pair that had one, and the next
\* reducer.calculate(statistic) of such a pair invokes compute and does not
\* return the object cached before the invalidation.
C2_CascadeInvalidation ==
    /\ \A t \in stale :
          ~(t[1] \in DOMAIN Reducer_cached_results
            /\ t[2] \in DOMAIN Reducer_cached_results[t[1]])
    /\ (last.op = "reduce" /\ last.pending # {})
          => (last.computed /\ \A id \in last.pending : last.ret # Some(id))

\* a reducer recalculated, and returned, after its entry was invalidated
C2_Witness ==
    last.op = "reduce" /\ last.pending # {} /\ last.ret # None

\* C4: after add_variable or remove_variable has changed a dataset's array
\* the statistic cache holds no entry for that dataset.
C4_MutationInvalidates ==
    (last.op \in {"add_variable", "remove_variable"} /\ last.changed)
        => (last.d \notin DOMAIN Statistic_cached_results
            \/ DOMAIN Statistic_cached_results[last.d] = {})

\* C3: a calculate of a statistic on a dataset that directly follows a
\* calculate of the same statistic on another dataset invokes compute, and
\* returns a new object holding the statistic of the second dataset's data.
C3_KeyedByDataset ==
    (last.op = "calculate" /\ ~last.raised /\ last.prior # None
     /\ last.prior[1].d # last.d /\ StatisticKind[last.s] # "reduced")
        => /\ last.computed
           /\ last.ret # last.prior[1].ret
           /\ heap[last.ret[1]] = StatisticCompute(last.s, last.before[1].data[last.d]).value

\* C5: a calculate of a statistic or of a reducer leaves every dataset's
\* array and every result object that existed before the call as it was.
C5_NoSharedState ==
    (last.op \in {"calculate", "reduce"})
        => /\ data = last.before[1].data
           /\ \A id \in 1..Len(last.before[1].heap) : heap[id] = last.before[1].heap[id]

\* an ordered pairwise statistic computed on an array that sorting changes
C5_Witness ==
    /\ last.op = "calculate" /\ last.s = "S2" /\ last.computed /\ ~last.raised
    /\ SortAxis0(data[last.d]) # data[last.d]

\* C27: after Statistic.uncache(D) get_result() returns None for every
\* statistic that had a cached result for D when it was called.
C27_UncacheClearsResult ==
    [][(last'.op = "uncache")
          => \A statistic \in CachedFor(Graph, last'.d) :
                DictGet(cached_result', statistic) = None]_vars

\* whether every entry of the two-level cache after is an entry of before
NoEntryCreated(before, after) ==
    \A outer \in DOMAIN after :
        \A inner \in DOMAIN after[outer] :
            /\ outer \in DOMAIN before
            /\ inner \in DOMAIN before[outer]
            /\ after[outer][inner] = before[outer][inner]

\* C28: a calculate of a statistic or of a reducer in which compute raised
\* creates no entry in the statistic cache or the reducer cache and leaves
\* every statistic's stored result as it was; the same calculate called
\* next invokes compute.
C28_FailureLeavesCache ==
    [][/\ (last'.op \in {"calculate", "reduce"} /\ last'.raised)
             => /\ NoEntryCreated(Statistic_cached_results, Statistic_cached_results')
                /\ NoEntryCreated(Reducer_cached_results, Reducer_cached_results')
                /\ cached_result' = cached_result
       /\ (/\ last.op \in {"calculate", "reduce"} /\ last.raised
           /\ last'.op = last.op /\ last'.s = last.s /\ last'.r = last.r
           /\ ~last'.raised)
             => last'.computed]_vars

\* a calculate in which compute raised, with another statistic's result and
\* a reduction of it in the caches
C28_Witness ==
    /\ last.op = "calculate" /\ last.raised
    /\ DOMAIN cached_result # {}
    /\ DOMAIN Reducer_cached_results # {}

\* C25: the value a reducer.calculate(statistic) returns is the reduction
\* of the result the statistic holds at that moment.
C25_ReductionsNeverStale ==
    (last.op = "reduce" /\ last.ret # None)
        => /\ get_result(Graph, last.s) # None
           /\ heap[last.ret[1]]
                  = ReducerCompute(last.r, heap[get_result(Graph, last.s)[1]]).value

----------------------------------------------------------------------------
(* Properties of the Config *)

\* whether word is pattern read literally, each "*" standing for any
\* sequence of characters
RECURSIVE GlobIs(_, _)
GlobIs(pattern, word) ==
    IF pattern = << >> THEN word = << >>
    ELSE IF Head(pattern) = "*"
    THEN \E k \in 0..Len(word) : GlobIs(Tail(pattern), SubSeq(word, k + 1, Len(word)))
    ELSE word # << >> /\ Head(word) = Head(pattern) /\ GlobIs(Tail(pattern), Tail(word))

\* whether the name starts with the pattern so read
GlobStarts(pattern, name) ==
    \E k \in 0..Len(name) : GlobIs(pattern, SubSeq(name, 1, k))

\* C9: when add_reducer has resolved a filter, the resolved set of the
\* reducer is exactly the set of the registered Statistic instance names
\* that start with one of the filter's patterns, a "*" standing for any
\* sequence of characters; with m.A.s, m.B.s and m.A.t registered the
\* filter m.A.* resolves to m.A.s and m.A.t.
C9_FilterMatching ==
    (last.op = "add_reducer" /\ ~last.raised /\ Truthy(statistic_filters))
        => LET patterns == yaml_str_list_to_list(statistic_filters)
               names == OdKeySet(config.config_scheme["Statistic"])
               resolved == get_reducer_filtered_statistics(config, last.component)
           IN  /\ resolved =
                     Some({name \in names :
                             \E i \in 1..Len(patterns) : GlobStarts(patterns[i], name)})
               /\ (/\ statistic_filters = StrFilter(<<"m", ".", "A", ".", "*">>)
                   /\ names = {<<"m", ".", "A", ".", "s">>, <<"m", ".", "B", ".", "s">>,
                               <<"m", ".", "A", ".", "t">>})
                      => resolved = Some({<<"m", ".", "A", ".", "s">>,
                                          <<"m", ".", "A", ".", "t">>})

\* the filter m.A.* resolved against m.A.s, m.B.s and m.A.t
C9_Witness ==
    /\ last.op = "add_reducer" /\ ~last.raised
    /\ statistic_filters = StrFilter(<<"m", ".", "A", ".", "*">>)
    /\ Len(config.config_scheme["Statistic"]) = 3
    /\ "R1" \in DOMAIN config.reducer_filtered_stats

\* C10: adding a component whose full instance name is a key of its
\* archetype's partition raises and leaves the partitions as they were;
\* adding one whose name is not yet a key, such as a component of a
\* registered module and class under another scheme name, does not raise and
\* appends an entry of its own to the partition.
C10_UniqueNames ==
    (last.op \in {"add_statistic", "add_reduced_statistic", "add_reducer"})
        => LET name == ComponentModule[last.component] \o <<".">>
                           \o ComponentType[last.component] \o <<".">> \o last.scheme_name
               before == last.before.config_scheme[last.archetype]
               after == config.config_scheme[last.archetype]
           IN  IF \E i \in 1..Len(before) : before[i][1] = name
               THEN last.raised /\ config.config_scheme = last.before.config_scheme
               ELSE /\ ~last.raised
                    /\ after = Append(before, <<name, last.component>>)
                    /\ \A a \in Archetypes \ {last.archetype} :
                          config.config_scheme[a] = last.before.config_scheme[a]

\* a registration refused while the class is registered under two schemes
C10_Witness ==
    /\ last.op = "add_statistic" /\ last.raised
    /\ {<<"m", ".", "A", ".", "s">>, <<"m", ".", "A", ".", "t">>}
           \subseteq OdKeySet(config.config_scheme["Statistic"])

\* C11: after an add that raised because the name is registered already,
\* the partition maps the name to the component registered first, and every
\* partition has the keys it had before the call.
C11_NoOverwrite ==
    (last.op \in {"add_statistic", "add_reduced_statistic", "add_reducer"} /\ last.raised)
        => LET name == get_full_instantiated_name(ComponentModule[last.component],
                                                  ComponentType[last.component],
                                                  last.scheme_name)
           IN  /\ OdHas(last.before.config_scheme[last.archetype], name)
               /\ OdGet(config.config_scheme[last.archetype], name)
                     = OdGet(last.before.config_scheme[last.archetype], name)
               /\ \A a \in Archetypes :
                     OdKeys(config.config_scheme[a]) = OdKeys(last.before.config_scheme[a])

\* the statistic object S3 refused under the name S1 is registered with
C11_Witness ==
    /\ last.op = "add_statistic" /\ last.raised /\ last.component = "S3"
    /\ OdHas(config.config_scheme["Statistic"], <<"m", ".", "A", ".", "s">>)
    /\ OdGet(config.config_scheme["Statistic"], <<"m", ".", "A", ".", "s">>) = "S1"

\* C26: after every add_statistic, remove_statistic, add_reducer and
\* remove_reducer the resolved set stored for a reducer is the set of the
\* registered Statistic instance names that start with one of the patterns
\* of the reducer's filter.
C26_ResolvedSetsCurrent ==
    \A reducer \in DOMAIN config.reducer_filtered_stats :
        LET patterns == yaml_str_list_to_list(get_reducer_filters(config, reducer))
        IN  config.reducer_filtered_stats[reducer]
               = {name \in OdKeySet(config.config_scheme["Statistic"]) :
                     \E i \in 1..Len(patterns) : GlobStarts(patterns[i], name)}

\* C14: a DynamicStatistic's calculate on 3-D data of t time slices returns
\* a result whose k-th slice along the trailing axis is the base compute
\* of the data's k-th time slice, for every k.
C14_DynamicStacking ==
    (last.op = "dynamic_calculate" /\ ~last.raised /\ input.ndim = 3)
        => /\ NSlices(heap[last.ret[1]]) = NSlices(input.array)
           /\ \A k \in 1..NSlices(input.array) :
                 TimeSlice(heap[last.ret[1]], k)
                    = PlainCompute(TimeSlice(input.array, k)).value

\* C30: after a DynamicStatistic's calculate on 3-D data has returned, the
\* result the statistic holds is the stacked result returned, and not the
\* result of one slice.
C30_StackedResultCached ==
    (last.op = "dynamic_calculate" /\ ~last.raised /\ input.ndim = 3)
        => /\ get_result(Graph, last.s) = last.ret
           /\ heap[get_result(Graph, last.s)[1]] = heap[last.ret[1]]

\* the elements along the comparison axis, as compute compares them:
\* the rows or the columns of the data, ordered when the statistic is
Compared ==
    LET along == IF input.pairwise_dim = "p"
                 THEN [j \in 1..Len(input.array[1]) |->
                          [i \in 1..Len(input.array) |-> input.array[i][j]]]
                 ELSE input.array
    IN  IF input.is_ordered THEN SortAxis0(along) ELSE along

\* C15: PairwiseStatistic.compute over a comparison axis of size m returns
\* the m x m matrix M with M[i][j] = pairwise_compute(x_i, x_j) for every
\* ordered pair, the diagonal included, and invokes pairwise_compute for
\* (i, j) and for (j, i).
C15_PairwiseContract ==
    (last.op = "pairwise" /\ ~last.raised)
        => LET m == Len(Compared)
           IN  /\ DOMAIN last.value = 1..m
               /\ \A i \in 1..m :
                     /\ DOMAIN last.value[i] = 1..m
                     /\ \A j \in 1..m :
                           /\ last.value[i][j] = pairwise_compute(Compared[i], Compared[j])
                           /\ <<i, j>> \in last.calls

\* a result that is not symmetric
C15_Witness ==
    /\ last.op = "pairwise" /\ ~last.raised
    /\ Len(last.value) = 2
    /\ last.value[1][2] # last.value[2][1]

\* C16: constructing a PairwiseStatistic raises the incompatibility error
\* exactly when the class is a DynamicStatistic as well and the comparison
\* axis is the time axis.
C16_TemporalCompatibility ==
    (last.op = "init")
        => (last.raised <=> (input.is_dynamic /\ input.pairwise_dim = "t"))

\* a construction refused, the class being dynamic and the axis t
C16_Witness ==
    last.op = "init" /\ last.raised /\ input.is_dynamic /\ input.pairwise_dim = "t"

----------------------------------------------------------------------------
(* Properties of instantiation *)

\* the arguments of __init__ declared without a default
DeclaredWithoutDefault(arg_spec) ==
    LET n_defaults == IF arg_spec.defaults = None THEN 0 ELSE Len(arg_spec.defaults[1])
    IN  ({arg_spec.args[i] : i \in 1..(Len(arg_spec.args) - n_defaults)} \ {"self"})
        \cup {arg \in SeqRange(arg_spec.kwonlyargs) :
                 arg_spec.kwonlydefaults = None \/ arg \notin DOMAIN arg_spec.kwonlydefaults[1]}

\* C12: instantiating a scheme raises exactly when an argument declared
\* without a default is absent from the scheme's arguments; an argument
\* with a declared default, None included, may be omitted.
C12_RequiredArguments ==
    (last.op = "instantiate")
        => (last.raised <=> \E arg \in DeclaredWithoutDefault(input.arg_spec) :
                               arg \notin DOMAIN input.scheme_args)

----------------------------------------------------------------------------
(* Properties of a Config built from a dict *)

\* the entries a top-level section of the dict supplies
Supplied(level_name) == IF input[level_name] = None THEN << >> ELSE input[level_name][1]

\* C13: building a Config from a dict that supplies neither a Statistic
\* together with a Reducer nor a ReducedStatistic is rejected as invalid;
\* so is a dict of Statistics only and one of Reducers only.
C13_ConfigValidity ==
    (last.op = "from_dict"
     /\ ~(Supplied("Statistics") # << >> /\ Supplied("Reducers") # << >>)
     /\ Supplied("ReducedStatistics") = << >>)
        => last.raised /\ last.invalid

\* the partition a by-name operation is named after
ByNamePartition ==
    [op \in {"add_statistic_by_name", "add_reduced_statistic_by_name", "add_reducer_by_name"} |->
        CASE op = "add_statistic_by_name" -> "Statistic"
          [] op = "add_reduced_statistic_by_name" -> "ReducedStatistic"
          [] OTHER -> "Reducer"]

\* the class named is a class of the module that the operation is for: a
\* Reducer, a ReducedStatistic, or a Statistic that is no ReducedStatistic
ClassOf(op, component_name) ==
    /\ component_name \in DOMAIN ModuleClasses
    /\ CASE op = "add_statistic_by_name" -> ModuleClasses[component_name] = {"Statistic"}
         [] op = "add_reduced_statistic_by_name" ->
                "ReducedStatistic" \in ModuleClasses[component_name]
         [] OTHER -> "Reducer" \in ModuleClasses[component_name]

\* C19: an add by name that is given the resolvable module reference, a
\* class of the operation's archetype and a name not yet registered, does
\* not raise, and afterwards the operation's partition holds an instance of
\* that class under module_reference.class_name.scheme_name.
C19_AddByName ==
    (/\ last.op \in DOMAIN ByNamePartition
     /\ last.module_reference = <<"m">>
     /\ ClassOf(last.op, last.component_name)
     /\ ~OdHas(last.before.config_scheme[ByNamePartition[last.op]],
               get_full_instantiated_name(last.module_reference, last.component_name,
                                          last.scheme_name)))
        => LET name == get_full_instantiated_name(last.module_reference, last.component_name,
                                                  last.scheme_name)
               partition == config.config_scheme[ByNamePartition[last.op]]
           IN  /\ ~last.raised
               /\ OdHas(partition, name)
               /\ ComponentType[OdGet(partition, name)] = last.component_name

\* C20: an add by name for a module reference that is loaded already
\* executes the module again and replaces the cached namespace when
\* refresh_module is True, and leaves the cached namespace when it is False.
C20_RefreshModule ==
    (/\ last.op \in DOMAIN ByNamePartition
     /\ last.module_reference \in DOMAIN last.before.cached_modules)
        => IF last.refresh_module
           THEN /\ last.ran
                /\ config.cached_modules[last.module_reference]
                       # last.before.cached_modules[last.module_reference]
           ELSE /\ ~last.ran
                /\ config.cached_modules[last.module_reference]
                       = last.before.cached_modules[last.module_reference]

\* C24: looking up a module reference that is not cached, not importable,
\* not loaded and not the path of a file returns no module and does not
\* raise.
C24_ResolutionFailureIsValue ==
    (/\ last.op \in DOMAIN ByNamePartition
     /\ last.module_reference = <<"x">>)
        => /\ ~last.looked.raised
           /\ last.looked.module = None

\* the patterns of the filters a Config holds for the reducer registered
\* under a name
FilterPatterns(c, reducer_name) ==
    LET filters == get_reducer_filters(c, OdGet(c.config_scheme["Reducer"], reducer_name))
    IN  IF filters = None THEN << >> ELSE yaml_str_list_to_list(filters)

\* the archetype a top-level section of the dict declares components of
LevelArchetype ==
    [level_name \in {"Statistics", "Reducers", "ReducedStatistics"} |->
        CASE level_name = "Statistics" -> "Statistic"
          [] level_name = "Reducers" -> "Reducer"
          [] OTHER -> "ReducedStatistic"]

\* whether a class entry declared under a section is one to skip: the module
\* has no such class, the class is no subtype of the section's archetype,
\* or a dependency it declares is not available
Skipped(level_name, entry) ==
    \/ entry[1] \notin DOMAIN ModuleClasses
    \/ LevelArchetype[level_name] \notin ModuleClasses[entry[1]]
    \/ /\ "dependencies" \in DOMAIN entry[2]
       /\ entry[2].dependencies # None
       /\ \E i \in 1..Len(yaml_str_list_to_list(entry[2].dependencies)) :
              yaml_str_list_to_list(entry[2].dependencies)[i] # <<"d">>

\* the names a section declares through the class entries not to skip
DeclaredNames(level_name) ==
    UNION {UNION {{get_full_instantiated_name(Lower(Supplied(level_name)[i][1]),
                                              Supplied(level_name)[i][2][j][1],
                                              Supplied(level_name)[i][2][j][2].schemes[1][k][1]) :
                      k \in 1..Len(Supplied(level_name)[i][2][j][2].schemes[1])} :
                  j \in {e \in 1..Len(Supplied(level_name)[i][2]) :
                            ~Skipped(level_name, Supplied(level_name)[i][2][e])}} :
           i \in 1..Len(Supplied(level_name))}

\* whether the dict declares an abstract class under some section
DeclaresAbstract ==
    \E level_name \in DOMAIN LevelArchetype :
        \E i \in 1..Len(Supplied(level_name)) :
            \E j \in 1..Len(Supplied(level_name)[i][2]) :
                Supplied(level_name)[i][2][j][1] \in AbstractClasses

\* the names an abstract class would be registered under
AbstractNames ==
    {get_full_instantiated_name(<<"m">>, class, scheme_name) :
        class \in AbstractClasses, scheme_name \in Schemes}

\* C32: building a Config from a dict that declares an abstract subclass of
\* a section's archetype does not raise; the abstract class gets no entry
\* and every other class entry declared is registered.
C32_ConcreteOnly ==
    (last.op = "from_dict" /\ ~last.invalid /\ DeclaresAbstract)
        => /\ ~last.raised
           /\ \A level_name \in DOMAIN LevelArchetype :
                 OdKeySet(config.config_scheme[LevelArchetype[level_name]])
                    = DeclaredNames(level_name) \ AbstractNames

C29_BuildOrdering ==
    (last.op = "from_dict" /\ ~last.raised)
        => \A reducer_name \in OdKeySet(config.config_scheme["Reducer"]) :
              LET reducer == OdGet(config.config_scheme["Reducer"], reducer_name)
                  patterns == FilterPatterns(config, reducer_name)
              IN  patterns # << >>
                     => get_reducer_filtered_statistics(config, reducer)
                           = Some({name \in OdKeySet(config.config_scheme["Statistic"]) :
                                      \E i \in 1..Len(patterns) :
                                         GlobStarts(patterns[i], name)})

\* a Config built whose reducer's filter m.A.* resolved to two statistics
C29_Witness ==
    /\ last.op = "from_dict" /\ ~last.raised
    /\ \E reducer \in DOMAIN config.reducer_filtered_stats :
          config.reducer_filtered_stats[reducer]
             = {<<"m", ".", "A", ".", "s">>, <<"m", ".", "A", ".", "t">>}

\* C18: to_yaml of a Config built from a valid dict returns a mapping, and
\* the Config built from that mapping holds the same names in every
\* partition and the same filter patterns for every reducer.
C18_ExportRoundTrip ==
    /\ (last.op = "to_yaml") => last.ret # None
    /\ (last.op = "from_yaml")
          => /\ ~last.raised
             /\ \A a \in Archetypes :
                   OdKeySet(config.config_scheme[a]) = OdKeySet(last.before.config_scheme[a])
             /\ \A reducer_name \in OdKeySet(last.before.config_scheme["Reducer"]) :
                   FilterPatterns(config, reducer_name)
                      = FilterPatterns(last.before, reducer_name)

\* the names a component is registered under, in any partition
RegisteredNames(component) ==
    UNION {{config.config_scheme[a][i][1] :
               i \in {j \in 1..Len(config.config_scheme[a]) :
                          config.config_scheme[a][j][2] = component}} : a \in Archetypes}

\* C39: after a pyspoc Statistic.calculate on a dataset the statistic cache
\* holds for that dataset no entry of any other statistic, and the reducer
\* cache holds no entry of any statistic that was cached for the dataset when
\* the calculate was called.
C39_CalculateInvalidatesLevel ==
    [][(last'.op = "calculate")
          => /\ (last'.d \in DOMAIN Statistic_cached_results'
                   => DOMAIN Statistic_cached_results'[last'.d] \subseteq {last'.s})
             /\ \A statistic \in CachedFor(Graph, last'.d) :
                    \/ statistic \notin DOMAIN Reducer_cached_results'
                    \/ DOMAIN Reducer_cached_results'[statistic] = {}]_vars

\* a statistic calculated on a dataset while another statistic, computed
\* before and since reduced, has lost its reducer cache entry, the level of
\* the dataset holding the statistic calculated alone
C39_Witness ==
    /\ last.op = "calculate"
    /\ ~last.raised
    /\ CachedFor(Graph, last.d) = {last.s}
    /\ \E statistic \in Statistics \ {last.s} :
          /\ get_result(Graph, statistic) # None
          /\ \E t \in stale : t[1] = statistic

\* C38: after an add_statistic_by_name that succeeded, and so resolved the
\* class of its component as a Statistic, the class cache the resolution
\* consults holds that class under the qualified name.
C38_ClassResolutionCached ==
    (last.op = "add_statistic_by_name" /\ ~last.raised)
       => cached_component_class("Statistic",
                                 get_full_component_name(last.module_reference,
                                                         last.component_name))
             = Some(last.component_name)

\* C37: after an add by name whose module was resolved, the module cache
\* holds under the reference the namespace the resolution returned.
C37_ResolutionMemoized ==
    (/\ last.op \in {"add_statistic_by_name", "add_reduced_statistic_by_name",
                     "add_reducer_by_name"}
     /\ ~last.looked.raised
     /\ last.looked.module # None)
       => get_cached_module(config.cached_modules, last.module_reference) = last.looked.module

\* the declared default of an argument of __init__, None if it has none
DeclaredDefault(arg_spec, arg) ==
    LET arg_names == SelectSeq(arg_spec.args, LAMBDA a : a # "self")
        n_defaults == IF arg_spec.defaults # None THEN Len(arg_spec.defaults[1]) ELSE 0
        first == Len(arg_names) - n_defaults
    IN  IF arg \in SeqRange(arg_spec.kwonlyargs)
        THEN IF arg_spec.kwonlydefaults # None /\ arg \in DOMAIN arg_spec.kwonlydefaults[1]
             THEN Some(arg_spec.kwonlydefaults[1][arg]) ELSE None
        ELSE IF IndexOf(arg_names, arg) > first
             THEN Some(arg_spec.defaults[1][IndexOf(arg_names, arg) - first]) ELSE None

\* the value a call supplies for an argument, None if it supplies none
SuppliedValue(arg_spec, args, kwargs, arg) ==
    LET arg_names == SelectSeq(arg_spec.args, LAMBDA a : a # "self")
    IN  IF arg \in DOMAIN kwargs THEN Some(kwargs[arg])
        ELSE IF arg \in SeqRange(arg_names) /\ IndexOf(arg_names, arg) <= Len(args)
        THEN Some(args[IndexOf(arg_names, arg)])
        ELSE None

\* C36: the params of a constructed component hold exactly the argument
\* names of the constructor, each with the value supplied for it, or with its
\* declared default when none was supplied.
C36_ParamsEffective ==
    (last.op = "new" /\ ~last.raised)
       => LET arg_spec == input.arg_spec
              names == (SeqRange(arg_spec.args) \cup SeqRange(arg_spec.kwonlyargs)) \ {"self"}
          IN  /\ DOMAIN last.params = names
              /\ \A arg \in names :
                    LET supplied == SuppliedValue(arg_spec, input.args, input.kwargs, arg)
                    IN  Some(last.params[arg])
                           = IF supplied # None THEN supplied
                             ELSE DeclaredDefault(arg_spec, arg)

\* a component constructed from a positional value, a keyword value and a
\* default
C36_Witness ==
    /\ last.op = "new"
    /\ ~last.raised
    /\ Len(input.args) = 1
    /\ DOMAIN input.kwargs = {"k"}
    /\ last.params = [a |-> "2", b |-> "1", k |-> "3"]

\* C35: after a remove_reducer that removed a registered reducer, the Config
\* holds neither the filter nor the resolved statistics of that reducer.
C35_RemoveReducerForgetsFilter ==
    (last.op = "remove_reducer" /\ last.removed # None)
       => /\ get_reducer_filters(config, last.removed[1]) = None
          /\ get_reducer_filtered_statistics(config, last.removed[1]) = None

\* C34: a remove_statistic of the statistic that the add_statistic just before
\* it registered leaves every partition with the entries it had before the
\* add.
C34_AddRemoveRoundTrip ==
    [][(/\ last.op = "add_statistic"
        /\ ~last.raised
        /\ last'.op = "remove_statistic"
        /\ last'.component = last.component)
       => \A a \in Archetypes :
             {config'.config_scheme[a][i] : i \in 1..Len(config'.config_scheme[a])}
                = {last.before.config_scheme[a][i] :
                      i \in 1..Len(last.before.config_scheme[a])}]_vars

\* C33: in every state every entry of every partition is stored under the
\* name formed of its component's module, class and current scheme.
C33_KeySchemeConsistency ==
    \A a \in Archetypes :
        \A i \in 1..Len(config.config_scheme[a]) :
            LET component == config.config_scheme[a][i][2]
            IN  /\ scheme[component] # None
                /\ config.config_scheme[a][i][1]
                       = get_full_instantiated_name(ComponentModule[component],
                                                    ComponentType[component],
                                                    scheme[component][1])

\* C21: in every state a component that is an entry of no partition has
\* scheme None, and a component that is an entry is registered under the
\* name formed with the scheme it holds.
C21_SchemeUntilRegistered ==
    \A component \in Components :
        IF RegisteredNames(component) = {}
        THEN scheme[component] = None
        ELSE /\ scheme[component] # None
             /\ RegisteredNames(component)
                   = {get_full_instantiated_name(ComponentModule[component],
                                                 ComponentType[component],
                                                 scheme[component][1])}

----------------------------------------------------------------------------
(* Properties of the Calculator *)

StatisticNames == OdKeySet(config.config_scheme["Statistic"])

ReducerNames == OdKeySet(config.config_scheme["Reducer"])

RstatNames == OdKeySet(config.config_scheme["ReducedStatistic"])

\* the statistics that succeeded in the run
Succeeded == StatisticNames \ last.stats_raised

\* the statistics a reducer is to be applied to: the resolved filter set of
\* the reducer, if it has one, among the statistics that succeeded
Applicable(reducer_name) ==
    LET reducer == OdGet(config.config_scheme["Reducer"], reducer_name)
        resolved == get_reducer_filtered_statistics(config, reducer)
    IN  IF resolved = None THEN Succeeded ELSE resolved[1] \cap Succeeded

\* C6: compute does not raise; it calls calculate on every configured
\* statistic; the results hold an entry for every statistic whose calculate
\* returned and none for one whose calculate raised, and the results table
\* has no column of a statistic that raised.
C6_StatisticIsolation ==
    (last.op = "compute")
        => /\ ~last.raised
           /\ last.stats_attempted = StatisticNames
           /\ \A name \in StatisticNames :
                 name \in DOMAIN results_dict <=> name \notin last.stats_raised
           /\ \A column \in build_results_table(results_dict) :
                 column[1] \notin last.stats_raised

\* of three statistics the second raised and the other two have entries
C6_Witness ==
    /\ last.op = "compute"
    /\ Len(config.config_scheme["Statistic"]) = 3
    /\ last.stats_raised = {config.config_scheme["Statistic"][2][1]}
    /\ {config.config_scheme["Statistic"][1][1], config.config_scheme["Statistic"][3][1]}
           \subseteq DOMAIN results_dict

\* C7: when reducer.calculate raised for a (statistic, reducer) pair or the
\* calculate of a reduced statistic raised, compute does not raise; the
\* pair or reduced statistic is absent from the results; every other
\* applicable pair has been attempted and is stored, and every other
\* reduced statistic has been attempted and is stored.
C7_ReducerIsolation ==
    (last.op = "compute" /\ (last.pairs_raised # {} \/ last.rstats_raised # {}))
        => /\ ~last.raised
           /\ \A pair \in last.pairs_raised : pair[2] \notin DOMAIN results_dict[pair[1]]
           /\ \A name \in last.rstats_raised : name \notin DOMAIN results_dict
           /\ \A reducer_name \in ReducerNames :
                 \A stat_name \in Applicable(reducer_name) :
                    <<stat_name, reducer_name>> \notin last.pairs_raised
                       => /\ <<stat_name, reducer_name>> \in last.pairs_attempted
                          /\ reducer_name \in DOMAIN results_dict[stat_name]
           /\ last.rstats_attempted = RstatNames
           /\ \A name \in RstatNames \ last.rstats_raised :
                 name \in DOMAIN results_dict /\ SelfKey \in DOMAIN results_dict[name]

\* C8: compute applies every configured reducer to exactly the statistics
\* of its resolved filter set that succeeded, if a filter was declared for
\* it, and to all statistics that succeeded otherwise.
C8_ReducerApplication ==
    (last.op = "compute")
        => \A reducer_name \in ReducerNames :
              {pair[1] : pair \in {p \in last.pairs_attempted : p[2] = reducer_name}}
                 = Applicable(reducer_name)

\* the names a partition holds a ReducedStatistic under
ReducedIn(archetype) ==
    {name \in OdKeySet(config.config_scheme[archetype]) :
        StatisticKind[OdGet(config.config_scheme[archetype], name)] = "reduced"}

\* C17: in compute no reducer's calculate is invoked with a ReducedStatistic,
\* whichever partition holds it, and every ReducedStatistic whose calculate
\* returned has an entry in the results whose only key is "self" and whose
\* value is the flattened result of its compute.
C17_NeverReduced ==
    (last.op = "compute")
        => /\ \A pair \in last.pairs_attempted : pair[1] \notin ReducedIn("Statistic")
           /\ \A name \in (ReducedIn("Statistic") \ last.stats_raised)
                             \cup (ReducedIn("ReducedStatistic") \ last.rstats_raised) :
                 /\ name \in DOMAIN results_dict
                 /\ DOMAIN results_dict[name] = {SelfKey}
                 /\ heap[results_dict[name][SelfKey][1]]
                        = Flatten(ReducedCompute(data[last.d]).value)

\* C23: compute on a Calculator constructed with dataset=None raises before
\* calculate is called on any statistic or reduced statistic, and stores
\* no results.
C23_DatasetNotLoaded ==
    (last.op = "compute" /\ last.d = NoDataset)
        => /\ last.raised
           /\ last.stats_attempted = {}
           /\ last.rstats_attempted = {}
           /\ last.columns = << >>

\* the columns of the names given, in their order, each with the keys given
\* that its entry in the results holds, in their order
ColumnsOf(names, inner) ==
    Concat([i \in 1..Len(names) |->
               IF names[i] \in DOMAIN results_dict
               THEN [j \in 1..Len(SelectSeq(inner, LAMBDA key :
                                       key \in DOMAIN results_dict[names[i]])) |->
                        <<names[i], SelectSeq(inner, LAMBDA key :
                                       key \in DOMAIN results_dict[names[i]])[j]>>]
               ELSE << >>])

\* C22: the columns of the results table are those of the statistics that
\* have results, in the order of the Statistic partition and for each
\* statistic in the order of the Reducer partition, followed by those of
\* the reduced statistics in the order of their registration, whatever
\* raised in the run.
C22_ColumnOrder ==
    (last.op = "compute")
        => last.columns
              = ColumnsOf(SelectSeq(OdKeys(config.config_scheme["Statistic"]),
                                    LAMBDA name : name \notin ReducedIn("Statistic")),
                          OdKeys(config.config_scheme["Reducer"]))
                \o ColumnsOf(SelectSeq(OdKeys(config.config_scheme["Statistic"]),
                                       LAMBDA name : name \in ReducedIn("Statistic"))
                                 \o OdKeys(config.config_scheme["ReducedStatistic"]),
                             <<SelfKey>>)

====
